---- MODULE Spec2Model ----
(***************************************************************************)
(* A model of pysersic's rendering engine (pysersic/rendering.py):         *)
(* BaseRenderer and its three subclasses PixelRenderer, FourierRenderer    *)
(* and HybridRenderer.                                                     *)
(*                                                                         *)
(* Numbers.  Array shapes are pairs of naturals.  The sum of a PSF is an   *)
(* integer in units of 1e-8 (SumUnit), so that the default atol of         *)
(* jnp.isclose is 1.  Sky parameters are integers in tenths and a rendered *)
(* plane is in twentieths, because the grid midpoints are half-integers.   *)
(*                                                                         *)
(* Images.  The arithmetic of a render is linear superposition of          *)
(* primitive evaluations (render_sersic_2d, render_gaussian_fourier, ...). *)
(* An image is the bag of its primitive terms; "+" on arrays is (+) on     *)
(* bags; multiplying by PSF_fft and inverse-transforming is linear, so it  *)
(* maps a bag of Fourier/intrinsic terms to the bag of the same terms      *)
(* marked as PSF-convolved.                                                *)
(***************************************************************************)
EXTENDS Integers, Sequences, FiniteSets, Bags, TLC

\* renderers: the objects constructed so far; res: the last call and what it
\* gave; jax_enable_x64: the flag jax.config.jax_enable_x64 of the process;
\* fit: the FitSingle object; results: the PySersicResults object
VARIABLES renderers, res, jax_enable_x64, fit, results

vars == <<renderers, res, jax_enable_x64, fit, results>>

----------------------------------------------------------------------------
(* Bounds of the model *)

MaxDim == 3
MaxPsfDim == 3
MaxSources == 2
MaxSkyDim == 5
NSigma == 2
RenderDim == 2
NumPixelRender == 1

Slots == {1, 2}

Kinds == {"Pixel", "Fourier", "Hybrid"}

----------------------------------------------------------------------------
(* Numeric units and library defaults *)

\* one unit of a PSF sum is 1e-8
SumUnit == 100000000

\* jnp.isclose(a, b, rtol, atol): default atol = 1e-08, i.e. one unit
ISCLOSE_ATOL == 1

\* the third positional argument of jnp.isclose in BaseRenderer.__init__ is
\* rtol = 0.1, kept as a number of tenths
RTOL_TENTHS == 1

Abs(x) == IF x < 0 THEN -x ELSE x

\* jnp.isclose(a, b, rtol) for finite a, b: |a - b| <= atol + rtol * |b|
isclose(a, b, rtol_tenths) ==
    Abs(a - b) <= ISCLOSE_ATOL + (rtol_tenths * Abs(b)) \div 10

----------------------------------------------------------------------------
(* Shapes *)

NoShape == <<0, 0>>

\* Python's "<" on two tuples of ints: lexicographic
TupleLess(s, t) ==
    \/ s[1] < t[1]
    \/ s[1] = t[1] /\ s[2] < t[2]

\* jnp.meshgrid(a, b) with the default indexing 'xy': both outputs have shape
\* (len(b), len(a))
MeshgridShape(la, lb) == <<lb, la>>

\* numpy broadcasting of two 2-D shapes
CanBroadcast(s, t) ==
    /\ (s[1] = t[1] \/ s[1] = 1 \/ t[1] = 1)
    /\ (s[2] = t[2] \/ s[2] = 1 \/ t[2] = 1)

BroadcastShape(s, t) ==
    << IF s[1] = 1 THEN t[1] ELSE s[1], IF s[2] = 1 THEN t[2] ELSE s[2] >>

\* len(jnp.fft.rfftfreq(n)) and len(jnp.fft.fftfreq(n))
RfftfreqLen(n) == n \div 2 + 1
FftfreqLen(n) == n

\* shape of jnp.fft.rfft2(a, s = s): the input is cropped or zero-padded to s
Rfft2Shape(s) == <<s[1], s[2] \div 2 + 1>>

\* shape of jnp.fft.irfft2(F, s = s)
Irfft2Shape(s) == s

----------------------------------------------------------------------------
(* Renderer objects *)

NoRenderer ==
    [kind |-> "none", im_shape |-> NoShape, pixel_PSF |-> [shape |-> NoShape, sum |-> 0],
     psf_shape |-> NoShape, X |-> <<>>, Y |-> <<>>, X_shape |-> NoShape,
     x_mid2 |-> 0, y_mid2 |-> 0, FX_shape |-> NoShape, PSF_fft_shape |-> NoShape,
     profile_types |-> <<>>, n_sigma |-> 0, num_pixel_render |-> 0,
     w_real |-> {}, w_fourier |-> {}, get_amps_sigmas |-> "none",
     os_pixel_size |-> 0, x_os |-> {}, y_os |-> {}]

Raised == [NoRenderer EXCEPT !.kind = "raised"]

base_profile_types == <<"sersic", "doublesersic", "pointsource", "exp", "dev">>

\* a variant of the table in which 'exp' also declares the index n
base_profile_params_exp7 ==
    [t \in {"sersic", "doublesersic", "pointsource", "exp", "dev"} |->
        CASE t = "sersic" -> <<"xc", "yc", "flux", "r_eff", "n", "ellip", "theta">>
          [] t = "doublesersic" -> <<"xc", "yc", "flux", "f_1", "r_eff_1", "n_1", "ellip_1",
                                     "r_eff_2", "n_2", "ellip_2", "theta">>
          [] t = "pointsource" -> <<"xc", "yc", "flux">>
          [] t = "exp" -> <<"xc", "yc", "flux", "r_eff", "n", "ellip", "theta">>
          [] t = "dev" -> <<"xc", "yc", "flux", "r_eff", "ellip", "theta">>]

base_profile_params ==
    [t \in {"sersic", "doublesersic", "pointsource", "exp", "dev"} |->
        CASE t = "sersic" -> <<"xc", "yc", "flux", "r_eff", "n", "ellip", "theta">>
          [] t = "doublesersic" -> <<"xc", "yc", "flux", "f_1", "r_eff_1", "n_1", "ellip_1",
                                     "r_eff_2", "n_2", "ellip_2", "theta">>
          [] t = "pointsource" -> <<"xc", "yc", "flux">>
          [] t = "exp" -> <<"xc", "yc", "flux", "r_eff", "ellip", "theta">>
          [] t = "dev" -> <<"xc", "yc", "flux", "r_eff", "ellip", "theta">>]

\* the normalisation test of BaseRenderer.__init__ (line 41)
PSFNormalized(psf) == isclose(psf.sum, SumUnit, RTOL_TENTHS)

\* the size test of BaseRenderer.__init__ (line 44): im_shape and psf_shape are
\* Python tuples, so "<" is the tuple comparison and jnp.all sees one bool
KernelTooLarge(im_shape, psf_shape) == TupleLess(im_shape, psf_shape)

\* the pixel grids of lines 46-48: x = arange(im_shape[0]), y = arange(im_shape[1]),
\* X[i, j] = x[j], Y[i, j] = y[i], as functions on 0-based index pairs
GridX(im_shape) ==
    [ij \in (0 .. im_shape[2] - 1) \X (0 .. im_shape[1] - 1) |-> ij[2]]

GridY(im_shape) ==
    [ij \in (0 .. im_shape[2] - 1) \X (0 .. im_shape[1] - 1) |-> ij[1]]

\* the indices a Python slice lo:hi selects on an axis of length n: a negative
\* bound counts from the end, and a bound beyond either end is clipped
SliceBound(b, n) ==
    IF b < 0 THEN (IF b + n < 0 THEN 0 ELSE b + n) ELSE IF b > n THEN n ELSE b

Slice(lo, hi, n) == SliceBound(lo, n) .. (SliceBound(hi, n) - 1)

\* i_mid (j_mid) of PixelRenderer.__init__ : int(im_shape[k]/2)
Mid(len) == len \div 2

\* BaseRenderer.__init__ : the attributes of the object, or the error raised.
\* cfg holds the subclass configuration (n_sigma, num_pixel_render, the
\* get_amps_sigmas closure).
BaseInit(kind, im_shape, psf, cfg) ==
    IF ~PSFNormalized(psf)
    THEN [status |-> "PSFNormalizationWarning", obj |-> NoRenderer]
    ELSE IF KernelTooLarge(im_shape, psf.shape)
    THEN [status |-> "KernelError", obj |-> NoRenderer]
    ELSE LET X_shape == MeshgridShape(im_shape[1], im_shape[2])
             FX_shape == MeshgridShape(RfftfreqLen(im_shape[1]), FftfreqLen(im_shape[2]))
             psf_fft0 == Rfft2Shape(im_shape)
         IN  IF ~CanBroadcast(psf_fft0, FX_shape)
             THEN [status |-> "ShapeError", obj |-> NoRenderer]
             ELSE [status |-> "ok",
                   obj |-> [kind |-> kind, im_shape |-> im_shape, pixel_PSF |-> psf,
                            psf_shape |-> psf.shape,
                            X |-> GridX(im_shape), Y |-> GridY(im_shape),
                            X_shape |-> X_shape,
                            x_mid2 |-> im_shape[1] - 1, y_mid2 |-> im_shape[2] - 1,
                            FX_shape |-> FX_shape,
                            PSF_fft_shape |-> BroadcastShape(psf_fft0, FX_shape),
                            profile_types |-> base_profile_types,
                            n_sigma |-> cfg.n_sigma,
                            num_pixel_render |-> cfg.num_pixel_render,
                            w_real |-> cfg.w_real, w_fourier |-> cfg.w_fourier,
                            get_amps_sigmas |-> cfg.get_amps_sigmas,
                            os_pixel_size |-> cfg.os_pixel_size,
                            x_os |-> IF kind = "Pixel"
                                     THEN Slice(Mid(im_shape[1]) - cfg.os_pixel_size,
                                                Mid(im_shape[1]) + cfg.os_pixel_size,
                                                X_shape[1])
                                     ELSE {},
                            y_os |-> IF kind = "Pixel"
                                     THEN Slice(Mid(im_shape[2]) - cfg.os_pixel_size,
                                                Mid(im_shape[2]) + cfg.os_pixel_size,
                                                X_shape[2])
                                     ELSE {}]]

\* jnp.arange(lo, hi) as a set of indices
Arange(lo, hi) == lo .. (hi - 1)

\* the closure stored as self.get_amps_sigmas: the polynomial surrogate
\* (jnp.polyval of the fitted coefficients) or the direct quadrature
AmpsClosure(use_poly_fit_amps) ==
    IF use_poly_fit_amps THEN "polyval" ELSE "sersic_gauss_decomp"

\* the default of PixelRenderer's keyword os_pixel_size
os_pixel_size_default == 6

\* the subclass part of the constructors that the renders read
SubclassCfg(kind, n_sigma, num_pixel_render, use_poly_fit_amps) ==
    CASE kind = "Pixel" ->
            [n_sigma |-> 0, num_pixel_render |-> 0, w_real |-> {}, w_fourier |-> {},
             get_amps_sigmas |-> "none", os_pixel_size |-> os_pixel_size_default]
      [] kind = "Fourier" ->
            [n_sigma |-> n_sigma, num_pixel_render |-> 0, w_real |-> {},
             w_fourier |-> Arange(0, n_sigma),
             get_amps_sigmas |-> AmpsClosure(use_poly_fit_amps), os_pixel_size |-> 0]
      [] kind = "Hybrid" ->
            [n_sigma |-> n_sigma, num_pixel_render |-> num_pixel_render,
             w_real |-> Arange(n_sigma - num_pixel_render, n_sigma),
             w_fourier |-> Arange(0, n_sigma - num_pixel_render),
             get_amps_sigmas |-> AmpsClosure(use_poly_fit_amps), os_pixel_size |-> 0]

\* PixelRenderer(im_shape, pixel_PSF, os_pixel_size=...) : the keyword given
PixelRenderer(im_shape, psf, os_pixel_size) ==
    LET b == BaseInit("Pixel", im_shape, psf,
                      [SubclassCfg("Pixel", 0, 0, FALSE)
                          EXCEPT !.os_pixel_size = os_pixel_size])
    IN  [status |-> b.status, obj |-> b.obj, quad |-> 0, printed |-> FALSE]

\* HybridRenderer.__init__ multiplies pixel_PSF by psf_X, psf_Y, the meshgrid
\* of arange(psf_shape[0]) and arange(psf_shape[1]) (lines 705-707)
HybridMomentsOk(psf_shape) ==
    CanBroadcast(psf_shape, MeshgridShape(psf_shape[1], psf_shape[2]))

\* len(log_n_ax): the number of Sersic indices at which the constructor runs
\* sersic_gauss_decomp to fit the polynomial surrogate
PolyGridPoints == 100

\* the constructor of the class kind: super().__init__ first, then its own
\* part.  quad is the number of runs of sersic_gauss_decomp it makes, printed
\* whether it prints the "!! WARNING !!" line; x64 is jax.config.jax_enable_x64.
Renderer(kind, im_shape, psf, n_sigma, num_pixel_render, use_poly_fit_amps, x64) ==
    LET b == BaseInit(kind, im_shape, psf,
                      SubclassCfg(kind, n_sigma, num_pixel_render, use_poly_fit_amps))
    IN  IF b.status # "ok"
        THEN [status |-> b.status, obj |-> NoRenderer, quad |-> 0, printed |-> FALSE]
        ELSE IF kind = "Pixel"
        THEN [status |-> "ok", obj |-> b.obj, quad |-> 0, printed |-> FALSE]
        ELSE IF kind = "Hybrid" /\ ~HybridMomentsOk(psf.shape)
        THEN [status |-> "ShapeError", obj |-> NoRenderer, quad |-> 0, printed |-> FALSE]
        ELSE IF use_poly_fit_amps
        THEN [status |-> "ok", obj |-> b.obj, quad |-> PolyGridPoints, printed |-> FALSE]
        ELSE [status |-> "ok", obj |-> b.obj, quad |-> 0, printed |-> ~x64]

----------------------------------------------------------------------------
(* Images as bags of primitive terms *)

\* one primitive evaluation: prim is the function of rendering.py that computes
\* it, comp the index of the Gaussian component (-1 when there is none), p the
\* parameters it is evaluated at
Term(prim, comp, p) == [prim |-> prim, comp |-> comp, p |-> p]

\* conv: the terms multiplied by PSF_fft and inverse-transformed;
\* direct: the real-space terms added as they are;
\* fourier: frequency-space terms that were never inverse-transformed
Image(conv, direct, fourier) == [conv |-> conv, direct |-> direct, fourier |-> fourier]

ZeroImage == Image(EmptyBag, EmptyBag, EmptyBag)

ImagePlus(a, b) ==
    Image(a.conv (+) b.conv, a.direct (+) b.direct, a.fourier (+) b.fourier)

\* fixed-point product of two numbers kept in tenths
Mul10(a, b) == (a * b) \div 10

\* A sky parameter is a 0-d value (ndim 0, v = <<c>>) or a 1-d array (ndim 1);
\* a rendered plane has ndim 2 and v maps index pairs to values.
Scalar(c) == [ndim |-> 0, v |-> <<c>>]
Array1(a) == [ndim |-> 1, v |-> a]

\* An arviz object: an InferenceData, or the xarray Dataset of its posterior
\* group.  posterior maps variable names to values; a name is the sequence of
\* the words that '_' joins ('flux_auto_loc' is <<"flux", "auto", "loc">>) and
\* a value is an angle in quarters of pi.
NoData == [type |-> "none", posterior |-> [n \in {} |-> 0]]

\* A Gaussian decomposition (amps, sigmas): sigmas holds log10 of each sigma,
\* weights the trapezoid weight of each amplitude, n_amps the length of amps,
\* and nan tells that the amplitudes are all NaN
NoDecomp == [sigmas |-> <<>>, weights |-> <<>>, n_amps |-> 0, nan |-> FALSE]

\* what a call gives back: the value returned, or the exception raised; quad
\* counts the runs of sersic_gauss_decomp the call made, printed tells
\* whether it wrote the instability warning, and passes counts the calls of
\* conv / conv_and_inv_FFT it made
Ok(rtype, shape, image) ==
    [status |-> "ok", rtype |-> rtype, shape |-> shape, image |-> image,
     sky |-> Scalar(0), quad |-> 0, printed |-> FALSE, data |-> NoData,
     passes |-> 0, decomp |-> NoDecomp]

OkSky(sky) ==
    [status |-> "ok", rtype |-> "sky", shape |-> NoShape, image |-> ZeroImage,
     sky |-> sky, quad |-> 0, printed |-> FALSE, data |-> NoData,
     passes |-> 0, decomp |-> NoDecomp]

Err(e) ==
    [status |-> e, rtype |-> "none", shape |-> NoShape, image |-> ZeroImage,
     sky |-> Scalar(0), quad |-> 0, printed |-> FALSE, data |-> NoData,
     passes |-> 0, decomp |-> NoDecomp]

\* the parameters of the Sersic call that render_exp / render_dev and the
\* 'exp' / 'dev' branches of render_multi make: the index is inserted fifth
WithIndex(p, n) == <<p[1], p[2], p[3], p[4], n, p[5], p[6]>>

\* the two Sersic calls of a double Sersic: (xc, yc, flux*f_1, r_eff_1, n_1,
\* ellip_1, theta) and (xc, yc, flux*(1-f_1), r_eff_2, n_2, ellip_2, theta)
First(p) == <<p[1], p[2], Mul10(p[3], p[4]), p[5], p[6], p[7], p[11]>>
\* a variant in which the second component also takes the fraction f_1
SecondSameFraction(p) == <<p[1], p[2], Mul10(p[3], p[4]), p[8], p[9], p[10], p[11]>>

Second(p) == <<p[1], p[2], Mul10(p[3], 10 - p[4]), p[8], p[9], p[10], p[11]>>

----------------------------------------------------------------------------
(* PixelRenderer *)

\* which evaluation each pixel of render_int_sersic's image holds: im_no_os
\* (render_sersic_2d at the pixel centre) with the slice
\* [x_os_lo:x_os_hi, y_os_lo:y_os_hi] set to the Gauss-Legendre weighted sum
\* of render_sersic_2d over X_os, Y_os
IntSersicPixels(r) ==
    [ij \in DOMAIN r.X |->
        IF ij[1] \in r.x_os /\ ij[2] \in r.y_os THEN "sub_im_os" ELSE "im_no_os"]

\* render_int_sersic: render_sersic_2d on X, Y with the oversampled box set
PixelIntSersic(r, p) == SetToBag({Term("render_sersic_2d", -1, p)})

\* conv(image) for an image of shape s
PixelConv(r, int_im, s) ==
    IF CanBroadcast(<<s[1], s[2] \div 2 + 1>>, r.PSF_fft_shape)
    THEN [Ok("image", Irfft2Shape(r.im_shape), Image(int_im, EmptyBag, EmptyBag))
             EXCEPT !.passes = 1]
    ELSE [Err("ShapeError") EXCEPT !.passes = 1]

PixelRenderSersic(r, p) == PixelConv(r, PixelIntSersic(r, p), r.X_shape)

PixelRenderDoublesersic(r, p) ==
    PixelConv(r, PixelIntSersic(r, First(p)) (+) PixelIntSersic(r, Second(p)), r.X_shape)

\* map_coordinates(pixel_PSF*flux, [X - dx, Y - dy]): an array shaped like X
PixelPointsource(r, p) == SetToBag({Term("map_coordinates", -1, p)})

\* a variant that passes the resampled PSF through conv like a Sersic image
PixelRenderPointsourceConvolved(r, p) ==
    PixelConv(r, PixelPointsource(r, p), r.X_shape)

PixelRenderPointsource(r, p) ==
    Ok("image", r.X_shape, Image(EmptyBag, PixelPointsource(r, p), EmptyBag))

\* a variant of the loop whose 'sersic' branch assigns int_im instead of adding
\* to it
RECURSIVE PixelMultiLoopOverwrite(_, _, _, _, _)
PixelMultiLoopOverwrite(r, type_list, var_list, ind, acc) ==
    IF ind > Len(type_list) THEN acc
    ELSE LET t == type_list[ind]
             v == var_list[ind]
         IN  IF t = "pointsource"
             THEN PixelMultiLoopOverwrite(r, type_list, var_list, ind + 1,
                     [acc EXCEPT !.obs_im = @ (+) PixelPointsource(r, v)])
             ELSE IF t = "sersic"
             THEN PixelMultiLoopOverwrite(r, type_list, var_list, ind + 1,
                     [acc EXCEPT !.int_im = PixelIntSersic(r, v)])
             ELSE IF t = "exp"
             THEN PixelMultiLoopOverwrite(r, type_list, var_list, ind + 1,
                     [acc EXCEPT !.int_im = @ (+) PixelIntSersic(r, WithIndex(v, 1))])
             ELSE IF t = "dev"
             THEN PixelMultiLoopOverwrite(r, type_list, var_list, ind + 1,
                     [acc EXCEPT !.int_im = @ (+) PixelIntSersic(r, WithIndex(v, 4))])
             ELSE IF t = "doublesersic"
             THEN PixelMultiLoopOverwrite(r, type_list, var_list, ind + 1,
                     [acc EXCEPT !.int_im = (@ (+) PixelIntSersic(r, First(v)))
                                                (+) PixelIntSersic(r, Second(v))])
             ELSE PixelMultiLoopOverwrite(r, type_list, var_list, ind + 1, acc)

\* the loop of PixelRenderer.render_multi from index ind on; acc holds int_im
\* and obs_im.  An entry of a recognised type whose vector has the wrong
\* length stops the loop with the error of the unpacking.
RECURSIVE PixelMultiLoop(_, _, _, _, _)
PixelMultiLoop(r, type_list, var_list, ind, acc) ==
    IF ind > Len(type_list) THEN acc
    ELSE LET t == type_list[ind]
             v == var_list[ind]
         IN  IF t = "pointsource"
             THEN IF Len(v) # 3 THEN [acc EXCEPT !.status = "TypeError"]
                  ELSE PixelMultiLoop(r, type_list, var_list, ind + 1,
                          [acc EXCEPT !.obs_im = @ (+) PixelPointsource(r, v)])
             ELSE IF t = "sersic"
             THEN IF Len(v) # 7 THEN [acc EXCEPT !.status = "TypeError"]
                  ELSE PixelMultiLoop(r, type_list, var_list, ind + 1,
                          [acc EXCEPT !.int_im = @ (+) PixelIntSersic(r, v)])
             ELSE IF t = "exp"
             THEN IF Len(v) # 6 THEN [acc EXCEPT !.status = "ValueError"]
                  ELSE PixelMultiLoop(r, type_list, var_list, ind + 1,
                          [acc EXCEPT !.int_im = @ (+) PixelIntSersic(r, WithIndex(v, 1))])
             ELSE IF t = "dev"
             THEN IF Len(v) # 6 THEN [acc EXCEPT !.status = "ValueError"]
                  ELSE PixelMultiLoop(r, type_list, var_list, ind + 1,
                          [acc EXCEPT !.int_im = @ (+) PixelIntSersic(r, WithIndex(v, 4))])
             ELSE IF t = "doublesersic"
             THEN IF Len(v) # 11 THEN [acc EXCEPT !.status = "ValueError"]
                  ELSE PixelMultiLoop(r, type_list, var_list, ind + 1,
                          [acc EXCEPT !.int_im = (@ (+) PixelIntSersic(r, First(v)))
                                                     (+) PixelIntSersic(r, Second(v))])
             ELSE PixelMultiLoop(r, type_list, var_list, ind + 1, acc)

\* a variant that convolves the image of each entry on its own and adds the
\* convolved images
PixelRenderMultiPerSource(r, type_list, var_list) ==
    LET acc == PixelMultiLoop(r, type_list, var_list, 1,
                   [status |-> "ok", int_im |-> EmptyBag, obs_im |-> EmptyBag])
        c == PixelConv(r, acc.int_im, r.X_shape)
    IN  IF acc.status # "ok" THEN Err(acc.status)
        ELSE IF c.status # "ok" THEN c
        ELSE IF ~CanBroadcast(c.shape, r.X_shape)
        THEN [Err("ShapeError") EXCEPT !.passes = Len(type_list)]
        ELSE [Ok("image", BroadcastShape(c.shape, r.X_shape),
                 ImagePlus(c.image, Image(EmptyBag, acc.obs_im, EmptyBag)))
                 EXCEPT !.passes = Len(type_list)]

\* render_multi: the loop, then conv(int_im) + obs_im
PixelRenderMulti(r, type_list, var_list) ==
    LET acc == PixelMultiLoop(r, type_list, var_list, 1,
                   [status |-> "ok", int_im |-> EmptyBag, obs_im |-> EmptyBag])
        c == PixelConv(r, acc.int_im, r.X_shape)
    IN  IF acc.status # "ok" THEN Err(acc.status)
        ELSE IF c.status # "ok" THEN c
        ELSE IF ~CanBroadcast(c.shape, r.X_shape)
        THEN [Err("ShapeError") EXCEPT !.passes = c.passes]
        ELSE [Ok("image", BroadcastShape(c.shape, r.X_shape),
                 ImagePlus(c.image, Image(EmptyBag, acc.obs_im, EmptyBag)))
                 EXCEPT !.passes = c.passes]

----------------------------------------------------------------------------
(* FourierRenderer *)

\* amps[i] for an index i of an integer index array, amps of length n: a
\* negative index counts from the end, and an index outside the array is
\* clamped to it
Take(n, i) ==
    LET j == IF i < 0 THEN i + n ELSE i
    IN  IF j < 0 THEN 0 ELSE IF j > n - 1 THEN n - 1 ELSE j

\* the terms of the primitive prim summed over amps[idx], sigmas[idx]: one
\* term per entry of idx, of the component that entry selects
Gather(prim, idx, n, p) ==
    LET comps == {Take(n, i) : i \in idx}
    IN  [t \in {Term(prim, c, p) : c \in comps} |->
            Cardinality({i \in idx : Take(n, i) = t.comp})]

\* render_gaussian_fourier over the components idx of the decomposition that
\* get_amps_sigmas gives for p
GaussianFourier(idx, n, p) == Gather("render_gaussian_fourier", idx, n, p)

\* render_gaussian_pixel over the components idx
GaussianPixel(idx, n, p) == Gather("render_gaussian_pixel", idx, n, p)

PointsourceFourier(p) == SetToBag({Term("render_pointsource_fourier", -1, p)})

\* a variant in which the surrogate closure also runs the quadrature
get_amps_sigmas_requad(r) == 1

\* one call of self.get_amps_sigmas(flux, r_eff, n): the number of runs of
\* sersic_gauss_decomp it makes (the surrogate evaluates jnp.polyval instead)
get_amps_sigmas(r) == IF r.get_amps_sigmas = "sersic_gauss_decomp" THEN 1 ELSE 0

FourierSersicMog(r, p) == GaussianFourier(Arange(0, r.n_sigma), r.n_sigma, p)

\* conv_and_inv_FFT(F_im) for a frequency-space array shaped like FX
ConvAndInvFFT(r, F_im) ==
    IF CanBroadcast(r.FX_shape, r.PSF_fft_shape)
    THEN [Ok("image", Irfft2Shape(r.im_shape), Image(F_im, EmptyBag, EmptyBag))
             EXCEPT !.passes = 1]
    ELSE [Err("ShapeError") EXCEPT !.passes = 1]

FourierRenderSersic(r, p) ==
    [ConvAndInvFFT(r, FourierSersicMog(r, p)) EXCEPT !.quad = get_amps_sigmas(r)]

FourierRenderDoublesersic(r, p) ==
    [ConvAndInvFFT(r, FourierSersicMog(r, First(p)) (+) FourierSersicMog(r, Second(p)))
        EXCEPT !.quad = get_amps_sigmas(r) + get_amps_sigmas(r)]

FourierRenderPointsource(r, p) == ConvAndInvFFT(r, PointsourceFourier(p))

RECURSIVE FourierMultiLoop(_, _, _, _, _)
FourierMultiLoop(r, type_list, var_list, ind, acc) ==
    IF ind > Len(type_list) THEN acc
    ELSE LET t == type_list[ind]
             v == var_list[ind]
         IN  IF t = "pointsource"
             THEN IF Len(v) # 3 THEN [acc EXCEPT !.status = "TypeError"]
                  ELSE FourierMultiLoop(r, type_list, var_list, ind + 1,
                          [acc EXCEPT !.F_tot = @ (+) PointsourceFourier(v)])
             ELSE IF t = "sersic"
             THEN IF Len(v) # 7 THEN [acc EXCEPT !.status = "TypeError"]
                  ELSE FourierMultiLoop(r, type_list, var_list, ind + 1,
                          [acc EXCEPT !.F_tot = @ (+) FourierSersicMog(r, v),
                                      !.quad = @ + get_amps_sigmas(r)])
             ELSE IF t = "exp"
             THEN IF Len(v) # 6 THEN [acc EXCEPT !.status = "ValueError"]
                  ELSE FourierMultiLoop(r, type_list, var_list, ind + 1,
                          [acc EXCEPT !.F_tot = @ (+) FourierSersicMog(r, WithIndex(v, 1)),
                                      !.quad = @ + get_amps_sigmas(r)])
             ELSE IF t = "dev"
             THEN IF Len(v) # 6 THEN [acc EXCEPT !.status = "ValueError"]
                  ELSE FourierMultiLoop(r, type_list, var_list, ind + 1,
                          [acc EXCEPT !.F_tot = @ (+) FourierSersicMog(r, WithIndex(v, 4)),
                                      !.quad = @ + get_amps_sigmas(r)])
             ELSE IF t = "doublesersic"
             THEN IF Len(v) # 11 THEN [acc EXCEPT !.status = "ValueError"]
                  ELSE FourierMultiLoop(r, type_list, var_list, ind + 1,
                          [acc EXCEPT !.F_tot = (@ (+) FourierSersicMog(r, First(v)))
                                                    (+) FourierSersicMog(r, Second(v)),
                                      !.quad = @ + get_amps_sigmas(r) + get_amps_sigmas(r)])
             ELSE FourierMultiLoop(r, type_list, var_list, ind + 1, acc)

FourierRenderMulti(r, type_list, var_list) ==
    LET acc == FourierMultiLoop(r, type_list, var_list, 1,
                   [status |-> "ok", F_tot |-> EmptyBag, quad |-> 0])
    IN  IF acc.status # "ok" THEN [Err(acc.status) EXCEPT !.quad = acc.quad]
        ELSE [ConvAndInvFFT(r, acc.F_tot) EXCEPT !.quad = acc.quad]

----------------------------------------------------------------------------
(* HybridRenderer *)

\* render_sersic_hybrid: (Fgal, im_gal), the Fourier partial over w_fourier and
\* the pixel partial over w_real
HybridSersic(r, p) ==
    [F |-> GaussianFourier(r.w_fourier, r.n_sigma, p),
     im |-> GaussianPixel(r.w_real, r.n_sigma, p)]

\* im + conv_and_inv_FFT(F) for a real-space array im shaped like X
HybridSum(r, im, F) ==
    LET c == ConvAndInvFFT(r, F)
    IN  IF c.status # "ok" THEN c
        ELSE IF ~CanBroadcast(c.shape, r.X_shape)
        THEN [Err("ShapeError") EXCEPT !.passes = c.passes]
        ELSE [Ok("image", BroadcastShape(c.shape, r.X_shape),
                 ImagePlus(c.image, Image(EmptyBag, im, EmptyBag)))
                 EXCEPT !.passes = c.passes]

HybridRenderSersic(r, p) ==
    LET h == HybridSersic(r, p)
    IN  [HybridSum(r, h.im, h.F) EXCEPT !.quad = get_amps_sigmas(r)]

HybridRenderDoublesersic(r, p) ==
    LET h1 == HybridSersic(r, First(p))
        h2 == HybridSersic(r, Second(p))
    IN  [HybridSum(r, h1.im (+) h2.im, h1.F (+) h2.F)
            EXCEPT !.quad = get_amps_sigmas(r) + get_amps_sigmas(r)]

HybridRenderPointsource(r, p) == ConvAndInvFFT(r, PointsourceFourier(p))

\* the loop of HybridRenderer.render_multi; its 'dev' branch (lines 898-901)
\* adds F_cur to F_tot and leaves im_tot alone
RECURSIVE HybridMultiLoop(_, _, _, _, _)
HybridMultiLoop(r, type_list, var_list, ind, acc) ==
    IF ind > Len(type_list) THEN acc
    ELSE LET t == type_list[ind]
             v == var_list[ind]
         IN  IF t = "pointsource"
             THEN IF Len(v) # 3 THEN [acc EXCEPT !.status = "TypeError"]
                  ELSE HybridMultiLoop(r, type_list, var_list, ind + 1,
                          [acc EXCEPT !.F_tot = @ (+) PointsourceFourier(v)])
             ELSE IF t = "sersic"
             THEN IF Len(v) # 7 THEN [acc EXCEPT !.status = "TypeError"]
                  ELSE HybridMultiLoop(r, type_list, var_list, ind + 1,
                          [acc EXCEPT !.F_tot = @ (+) HybridSersic(r, v).F,
                                      !.im_tot = @ (+) HybridSersic(r, v).im,
                                      !.quad = @ + get_amps_sigmas(r)])
             ELSE IF t = "exp"
             THEN IF Len(v) # 6 THEN [acc EXCEPT !.status = "ValueError"]
                  ELSE HybridMultiLoop(r, type_list, var_list, ind + 1,
                          [acc EXCEPT !.F_tot = @ (+) HybridSersic(r, WithIndex(v, 1)).F,
                                      !.im_tot = @ (+) HybridSersic(r, WithIndex(v, 1)).im,
                                      !.quad = @ + get_amps_sigmas(r)])
             ELSE IF t = "dev"
             THEN IF Len(v) # 6 THEN [acc EXCEPT !.status = "ValueError"]
                  ELSE HybridMultiLoop(r, type_list, var_list, ind + 1,
                          [acc EXCEPT !.F_tot = @ (+) HybridSersic(r, WithIndex(v, 4)).F,
                                      !.quad = @ + get_amps_sigmas(r)])
             ELSE IF t = "doublesersic"
             THEN IF Len(v) # 11 THEN [acc EXCEPT !.status = "ValueError"]
                  ELSE HybridMultiLoop(r, type_list, var_list, ind + 1,
                          [acc EXCEPT !.F_tot = (@ (+) HybridSersic(r, First(v)).F)
                                                    (+) HybridSersic(r, Second(v)).F,
                                      !.im_tot = (@ (+) HybridSersic(r, First(v)).im)
                                                     (+) HybridSersic(r, Second(v)).im,
                                      !.quad = @ + get_amps_sigmas(r) + get_amps_sigmas(r)])
             ELSE HybridMultiLoop(r, type_list, var_list, ind + 1, acc)

HybridRenderMulti(r, type_list, var_list) ==
    LET acc == HybridMultiLoop(r, type_list, var_list, 1,
                   [status |-> "ok", F_tot |-> EmptyBag, im_tot |-> EmptyBag, quad |-> 0])
    IN  IF acc.status # "ok" THEN [Err(acc.status) EXCEPT !.quad = acc.quad]
        ELSE [HybridSum(r, acc.im_tot, acc.F_tot) EXCEPT !.quad = acc.quad]

----------------------------------------------------------------------------
(* BaseRenderer: virtual calls, thin wrappers, dispatch *)

RenderSersicOf(r, p) ==
    CASE r.kind = "Pixel" -> PixelRenderSersic(r, p)
      [] r.kind = "Fourier" -> FourierRenderSersic(r, p)
      [] r.kind = "Hybrid" -> HybridRenderSersic(r, p)

RenderDoublesersicOf(r, p) ==
    CASE r.kind = "Pixel" -> PixelRenderDoublesersic(r, p)
      [] r.kind = "Fourier" -> FourierRenderDoublesersic(r, p)
      [] r.kind = "Hybrid" -> HybridRenderDoublesersic(r, p)

RenderPointsourceOf(r, p) ==
    CASE r.kind = "Pixel" -> PixelRenderPointsource(r, p)
      [] r.kind = "Fourier" -> FourierRenderPointsource(r, p)
      [] r.kind = "Hybrid" -> HybridRenderPointsource(r, p)

render_exp(r, p) == RenderSersicOf(r, WithIndex(p, 1))

render_dev(r, p) == RenderSersicOf(r, WithIndex(p, 4))

render_multi(r, type_list, var_list) ==
    CASE r.kind = "Pixel" -> PixelRenderMulti(r, type_list, var_list)
      [] r.kind = "Fourier" -> FourierRenderMulti(r, type_list, var_list)
      [] r.kind = "Hybrid" -> HybridRenderMulti(r, type_list, var_list)

\* the names n for which getattr(self, 'render_' + n) finds an attribute: the
\* methods of BaseRenderer and the jitted closures the constructors store
RenderAttrs(kind) ==
    {"sersic", "doublesersic", "pointsource", "exp", "dev", "sky", "source", "multi"}
        \cup (CASE kind = "Pixel" -> {"int_sersic"}
                [] kind = "Fourier" -> {"sersic_mog_fourier"}
                [] kind = "Hybrid" -> {"sersic_hyrbid"})

\* number of positional parameters (without self) of the attribute render_<n>
Arity(n) ==
    CASE n = "sersic" -> 7
      [] n = "doublesersic" -> 11
      [] n = "pointsource" -> 3
      [] n = "exp" -> 6
      [] n = "dev" -> 6
      [] n \in {"sky", "source", "multi"} -> 2
      [] n \in {"int_sersic", "sersic_mog_fourier", "sersic_hyrbid"} -> 7

\* render_source(params, profile_type): getattr, then the call with *params.
\* The attributes that are not profile renderers are reached like the others:
\* render_int_sersic gives the unconvolved image, render_sersic_mog_fourier a
\* frequency-space array, render_sersic_hyrbid a pair; render_sky,
\* render_source and render_multi fail on two numbers (x[0] of a number,
\* no attribute 'render_<number>', len() of a number).
render_source(r, params, profile_type) ==
    IF profile_type \notin RenderAttrs(r.kind) THEN Err("AttributeError")
    ELSE IF Len(params) # Arity(profile_type) THEN Err("TypeError")
    ELSE CASE profile_type = "sersic" -> RenderSersicOf(r, params)
           [] profile_type = "doublesersic" -> RenderDoublesersicOf(r, params)
           [] profile_type = "pointsource" -> RenderPointsourceOf(r, params)
           [] profile_type = "exp" -> render_exp(r, params)
           [] profile_type = "dev" -> render_dev(r, params)
           [] profile_type = "int_sersic" ->
                Ok("intrinsic", r.X_shape,
                   Image(EmptyBag, PixelIntSersic(r, params), EmptyBag))
           [] profile_type = "sersic_mog_fourier" ->
                [Ok("fourier", r.FX_shape,
                    Image(EmptyBag, EmptyBag, FourierSersicMog(r, params)))
                    EXCEPT !.quad = get_amps_sigmas(r)]
           [] profile_type = "sersic_hyrbid" ->
                [Ok("pair", NoShape,
                    Image(EmptyBag, HybridSersic(r, params).im, HybridSersic(r, params).F))
                    EXCEPT !.quad = get_amps_sigmas(r)]
           [] profile_type = "sky" -> Err("IndexError")
           [] profile_type = "source" -> Err("AttributeError")
           [] profile_type = "multi" -> Err("TypeError")

----------------------------------------------------------------------------
(* Sky *)

Min(a, b) == IF a <= b THEN a ELSE b

\* x[k] of a 1-d jax array, k a 0-based Python int: out-of-range reads clamp
Item(x, k) == x.v[Min(k, Len(x.v) - 1) + 1]

flat_sky(x) == x

\* a variant with the two slopes exchanged
tilted_plane_sky_swapped(r, x) ==
    [ndim |-> 2,
     v |-> [ij \in DOMAIN r.X |->
               2 * Item(x, 0) + (2 * r.X[ij] - r.x_mid2) * Item(x, 2)
                              + (2 * r.Y[ij] - r.y_mid2) * Item(x, 1)]]

\* x[0] + (X - x_mid)*x[1] + (Y - y_mid)*x[2], in twentieths for x in tenths
tilted_plane_sky(r, x) ==
    [ndim |-> 2,
     v |-> [ij \in DOMAIN r.X |->
               2 * Item(x, 0) + (2 * r.X[ij] - r.x_mid2) * Item(x, 1)
                              + (2 * r.Y[ij] - r.y_mid2) * Item(x, 2)]]

\* a variant that raises on a tag outside None, 'flat', 'tilted-plane'
render_sky_checked(r, x, sky_type) ==
    IF sky_type = "None" THEN OkSky(Scalar(0))
    ELSE IF sky_type = "flat" THEN OkSky(flat_sky(x))
    ELSE IF sky_type # "tilted-plane" THEN Err("ValueError")
    ELSE IF x.ndim = 0 \/ Len(x.v) = 0 THEN Err("IndexError")
    ELSE OkSky(tilted_plane_sky(r, x))

\* render_sky(x, sky_type); the tag None is the string "None"
render_sky(r, x, sky_type) ==
    IF sky_type = "None" THEN OkSky(Scalar(0))
    ELSE IF sky_type = "flat" THEN OkSky(flat_sky(x))
    ELSE IF x.ndim = 0 \/ Len(x.v) = 0 THEN Err("IndexError")
    ELSE OkSky(tilted_plane_sky(r, x))

----------------------------------------------------------------------------
(* The pixel sum of a point-source image *)

(***************************************************************************)
(* Here a PSF carries its entries: pixel_PSF.data maps 0-based index pairs *)
(* to whole numbers of parts, PsfParts parts making a sum of 1.  Source    *)
(* positions are in half pixels and the flux is in tenths; bilinear        *)
(* weights are in halves per axis, so a pixel value is in units of         *)
(* 1/(4 * 10 * PsfParts).                                                  *)
(***************************************************************************)
PsfParts == 2

RECURSIVE SumOver(_, _)
SumOver(S, f) ==
    IF S = {} THEN 0
    ELSE LET e == CHOOSE e \in S : TRUE
         IN  f[e] + SumOver(S \ {e}, f)

\* input[k0, k1] under mode = 'constant' (cval 0): zero outside the array
PsfAt(psf, k0, k1) ==
    IF k0 \in 0 .. psf.shape[1] - 1 /\ k1 \in 0 .. psf.shape[2] - 1
    THEN psf.data[<<k0, k1>>] ELSE 0

\* a variant that resamples pixel_PSF instead of pixel_PSF*flux
map_coordinates_noflux(psf, flux, c0, c1) ==
    LET i0 == c0 \div 2
        f0 == c0 % 2
        i1 == c1 \div 2
        f1 == c1 % 2
    IN  (2 - f0) * (2 - f1) * PsfAt(psf, i0, i1)
          + (2 - f0) * f1 * PsfAt(psf, i0, i1 + 1)
          + f0 * (2 - f1) * PsfAt(psf, i0 + 1, i1)
          + f0 * f1 * PsfAt(psf, i0 + 1, i1 + 1)

\* jax.scipy.ndimage.map_coordinates(pixel_PSF*flux, [c0, c1], order = 1,
\* mode = 'constant') at one point; c0, c1 in half pixels: the four
\* neighbours floor(c), floor(c)+1 weighted by 1 - frac, frac on each axis
map_coordinates(psf, flux, c0, c1) ==
    LET i0 == c0 \div 2
        f0 == c0 % 2
        i1 == c1 \div 2
        f1 == c1 % 2
    IN  flux * ( (2 - f0) * (2 - f1) * PsfAt(psf, i0, i1)
                   + (2 - f0) * f1 * PsfAt(psf, i0, i1 + 1)
                   + f0 * (2 - f1) * PsfAt(psf, i0 + 1, i1)
                   + f0 * f1 * PsfAt(psf, i0 + 1, i1 + 1) )

\* the sum over all pixels of PixelRenderer.render_pointsource(xc, yc, flux):
\* dx = xc - psf_shape[0]/2, dy = yc - psf_shape[1]/2, coordinates X - dx, Y - dy
PixelPointsourceSum(r, p) ==
    LET dx == p[1] - r.psf_shape[1]
        dy == p[2] - r.psf_shape[2]
    IN  SumOver(DOMAIN r.X,
                [ij \in DOMAIN r.X |->
                    map_coordinates(r.pixel_PSF, p[3], 2 * r.X[ij] - dx, 2 * r.Y[ij] - dy)])

\* PSF_fft[0, 0]: the zero-frequency entry of rfft2(pixel_PSF, s = im_shape),
\* the sum of the PSF cropped to im_shape (both phase ramps are 1 there)
PsfFftDC(r) ==
    LET inside == {ab \in DOMAIN r.pixel_PSF.data :
                      ab[1] < r.im_shape[1] /\ ab[2] < r.im_shape[2]}
    IN  SumOver(inside, r.pixel_PSF.data)

\* the sum over all pixels of conv_and_inv_FFT(render_pointsource_fourier(FX,
\* FY, xc, yc, flux)): the zero-frequency entry flux * exp(0) * PSF_fft[0, 0],
\* in the units of PixelPointsourceSum
FourierPointsourceSum(r, p) == 4 * p[3] * PsfFftDC(r)

\* the sum over all pixels of an image made of point-source terms
PointsourceImageSum(r, image) ==
    LET direct == BagToSet(image.direct)
        conv == BagToSet(image.conv)
    IN  SumOver(direct, [t \in direct |->
                            CopiesIn(t, image.direct) * PixelPointsourceSum(r, t.p)])
          + SumOver(conv, [t \in conv |->
                              CopiesIn(t, image.conv) * FourierPointsourceSum(r, t.p)])

\* PixelRenderer.render_pointsource(xc, yc, flux) pixel by pixel: the entry
\* [i, j] is pixel_PSF*flux resampled at (X[i, j] - dx, Y[i, j] - dy), the
\* first coordinate running along axis 0 of the PSF
PixelPointsourceArray(r, p) ==
    LET dx == p[1] - r.psf_shape[1]
        dy == p[2] - r.psf_shape[2]
    IN  [ij \in DOMAIN r.X |->
            map_coordinates(r.pixel_PSF, p[3], 2 * r.X[ij] - dx, 2 * r.Y[ij] - dy)]

\* the shifts xc - (psf_shape[0]/2 - 0.5) and yc - (psf_shape[1]/2 - 0.5) of
\* the Fourier path are whole pixels
FourierShiftExact(r, p) ==
    /\ (p[1] - (r.psf_shape[1] - 1)) % 2 = 0
    /\ (p[2] - (r.psf_shape[2] - 1)) % 2 = 0

\* irfft2(flux * exp(-2 pi i (FX xc + FY yc)) * PSF_fft) pixel by pixel, for
\* whole-pixel shifts: FX is the frequency along axis 1 and FY along axis 0
\* of rfft2's output, so the PSF, zero-padded or cropped to im_shape, is
\* shifted cyclically by xc - (psf_shape[0]/2 - 0.5) along the columns and by
\* yc - (psf_shape[1]/2 - 0.5) along the rows.  (The ramps of line 56-57 use
\* 3.1415 for pi, a shift error below 1e-4 pixel that is left out.)
FourierPointsourceArray(r, p) ==
    LET sx == (p[1] - (r.psf_shape[1] - 1)) \div 2
        sy == (p[2] - (r.psf_shape[2] - 1)) \div 2
        Pad(a, b) == IF a < r.im_shape[1] /\ b < r.im_shape[2]
                     THEN PsfAt(r.pixel_PSF, a, b) ELSE 0
    IN  [ij \in DOMAIN r.X |->
            4 * p[3] * Pad((ij[1] - sy) % r.im_shape[1], (ij[2] - sx) % r.im_shape[2])]

\* the pixels of an image made of point-source terms
PointsourceArray(r, image) ==
    LET direct == BagToSet(image.direct)
        conv == BagToSet(image.conv)
    IN  [ij \in DOMAIN r.X |->
            SumOver(direct, [t \in direct |->
                                CopiesIn(t, image.direct) * PixelPointsourceArray(r, t.p)[ij]])
              + SumOver(conv, [t \in conv |->
                                  CopiesIn(t, image.conv)
                                      * FourierPointsourceArray(r, t.p)[ij]])]

----------------------------------------------------------------------------
(* The Gaussian decomposition of a Sersic profile *)
(*                                                                         *)
(* A sigma is kept as its log10 in thousandths; the entries of a           *)
(* logarithmic grid of num points are kept multiplied by Steps(num), so    *)
(* that the equal steps of the grid are whole numbers.  Trapezoid weights  *)
(* are in quarters.                                                        *)

\* log10 of the defaults frac_start = 1e-2 and frac_end = 15., in thousandths
LogFracStart == -2000
LogFracEnd == 1176

Steps(num) == IF num > 1 THEN num - 1 ELSE 1

\* jnp.logspace(a, b, num): num points from a to b in equal steps of the
\* exponent; the single point of num = 1 is a
logspace(a, b, num) == [k \in 1 .. num |-> a * Steps(num) + (k - 1) * (b - a)]

\* jnp.diff(x).mean(): the mean of no number is NaN
MeanDiff(x) ==
    IF Len(x) < 2 THEN [nan |-> TRUE, sum |-> 0, count |-> 0]
    ELSE [nan |-> FALSE, sum |-> x[Len(x)] - x[1], count |-> Len(x) - 1]

\* amps.at[i].multiply(0.5) on the weights
HalveAt(w, i) == [w EXCEPT ![Take(Len(w), i) + 1] = @ \div 2]

\* the weights after amps.at[0].multiply(0.5) and amps.at[-1].multiply(0.5)
TrapezoidWeights(n_comp) == HalveAt(HalveAt([k \in 1 .. n_comp |-> 4], 0), -1)

\* sersic_gauss_decomp(flux, re, n, etas, betas, sigma_start, sigma_end,
\* n_comp), the sigmas given by their log10: every amplitude is
\* f_sigma * del_log_sigma / sqrt(2 pi) * weight * 2 pi sigma^2
sersic_gauss_decomp(log_sigma_start, log_sigma_end, n_comp) ==
    LET sigmas == logspace(log_sigma_start, log_sigma_end, n_comp)
        del_log_sigma == MeanDiff(sigmas)
    IN  [sigmas |-> sigmas, weights |-> TrapezoidWeights(n_comp),
         n_amps |-> n_comp, nan |-> del_log_sigma.nan]

\* a variant whose surrogate lays the grid out for r_eff = 1
AmpsSigmasUnscaled(r, log_r_eff) ==
    IF r.get_amps_sigmas = "polyval"
    THEN [NoDecomp EXCEPT !.sigmas = logspace(LogFracStart, LogFracEnd, r.n_sigma),
                          !.n_amps = r.n_sigma]
    ELSE sersic_gauss_decomp(LogFracStart + log_r_eff, LogFracEnd + log_r_eff, r.n_sigma)

\* self.get_amps_sigmas(flux, r_eff, n) of a Fourier or Hybrid renderer: the
\* surrogate evaluates the fitted polynomials, one per component, and lays
\* out logspace(log10(r_eff*frac_start), log10(r_eff*frac_end), n_sigma); the
\* direct closure calls sersic_gauss_decomp with frac_start*r_eff and
\* frac_end*r_eff.  The surrogate was fitted to sersic_gauss_decomp.
AmpsSigmas(r, log_r_eff) ==
    IF r.get_amps_sigmas = "polyval"
    THEN [NoDecomp EXCEPT !.sigmas = logspace(log_r_eff + LogFracStart,
                                              log_r_eff + LogFracEnd, r.n_sigma),
                          !.n_amps = r.n_sigma,
                          !.nan = sersic_gauss_decomp(LogFracStart, LogFracEnd,
                                                      r.n_sigma).nan]
    ELSE sersic_gauss_decomp(LogFracStart + log_r_eff, LogFracEnd + log_r_eff, r.n_sigma)

----------------------------------------------------------------------------
(* Results of operations *)

NoMask == [given |-> FALSE, v |-> <<>>]

NoCall == [tag |-> "", params |-> <<>>, types |-> <<>>, vars |-> <<>>, x |-> Scalar(0),
           kind |-> "", im_shape |-> NoShape, psf |-> [shape |-> NoShape, sum |-> 0],
           use_poly_fit_amps |-> "omitted",
           weight_shape |-> NoShape, mask |-> NoMask, sky_model |-> "", profile_type |-> "",
           sampler |-> [given |-> FALSE, posterior |-> NoData.posterior],
           svi_res_dict |-> [given |-> FALSE, keys |-> {}, posterior |-> NoData.posterior],
           purge_extra |-> TRUE, data |-> NoData, prior_dict |-> {}]

InitRes == [op |-> "none", slot |-> 0, out |-> Err("none"), call |-> NoCall]

----------------------------------------------------------------------------
(* FitSingle (pysersic/pysersic.py) *)

\* the default of the keyword use_poly_fit_amps of FourierRenderer and
\* HybridRenderer
use_poly_fit_amps_default == TRUE

NoFit == [state |-> "none", sky_model |-> "", profile_type |-> "", renderer |-> 0,
          mask |-> <<>>, prior_dict |-> {}, az_data |-> NoData]

\* the sky models and profile types FitSingle.__init__ accepts (lines 59, 66)
SkyModels == {"None", "flat", "tilted-plane"}

FitProfileTypes == {"sersic", "doublesersic", "exp", "dev", "pointsource"}

\* a variant that stores the mask as it was given
StoredMaskAsGiven(data_shape, mask) ==
    IF ~mask.given
    THEN [ij \in (0 .. data_shape[1] - 1) \X (0 .. data_shape[2] - 1) |-> TRUE]
    ELSE [ij \in DOMAIN mask.v |-> mask.v[ij]]

\* self.mask: all True without a mask, the negation of the mask otherwise
StoredMask(data_shape, mask) ==
    IF ~mask.given
    THEN [ij \in (0 .. data_shape[1] - 1) \X (0 .. data_shape[2] - 1) |-> TRUE]
    ELSE [ij \in DOMAIN mask.v |-> ~mask.v[ij]]

\* a variant that checks sky_model and then leaves the attribute at its default
FitSingleDropsSky(data_shape, weight_shape, psf, mask, sky_model, profile_type, kind, x64) ==
    LET r == Renderer(kind, data_shape, psf, NSigma, NumPixelRender,
                      use_poly_fit_amps_default, x64)
        fail(e) == [status |-> e, obj |-> NoFit, renderer |-> r]
    IN  IF data_shape # weight_shape THEN fail("AssertionError")
        ELSE IF sky_model \notin SkyModels THEN fail("AssertionError")
        ELSE IF r.status # "ok" THEN fail(r.status)
        ELSE IF profile_type \notin FitProfileTypes THEN fail("AssertionError")
        ELSE [status |-> "ok",
              obj |-> [NoFit EXCEPT !.state = "ok", !.sky_model = "None",
                                    !.profile_type = profile_type, !.renderer = 1,
                                    !.mask = StoredMask(data_shape, mask),
                                    !.prior_dict = {}],
              renderer |-> r]

\* FitSingle.__init__ with renderer_kwargs = {}: the checks in the order of
\* the code (shapes, sky_model, the renderer's constructor, profile_type),
\* then the attributes.  renderer is what the renderer's constructor gave when
\* it was reached.
FitSingle(data_shape, weight_shape, psf, mask, sky_model, profile_type, kind, x64) ==
    LET r == Renderer(kind, data_shape, psf, NSigma, NumPixelRender,
                      use_poly_fit_amps_default, x64)
        fail(e) == [status |-> e, obj |-> NoFit, renderer |-> r]
    IN  IF data_shape # weight_shape THEN fail("AssertionError")
        ELSE IF sky_model \notin SkyModels THEN fail("AssertionError")
        ELSE IF r.status # "ok" THEN fail(r.status)
        ELSE IF profile_type \notin FitProfileTypes THEN fail("AssertionError")
        ELSE [status |-> "ok",
              obj |-> [NoFit EXCEPT !.state = "ok", !.sky_model = sky_model,
                                    !.profile_type = profile_type, !.renderer = 1,
                                    !.mask = StoredMask(data_shape, mask),
                                    !.prior_dict = {}],
              renderer |-> r]

\* FitMulti.__init__: FitSingle.__init__ with the default profile_type, then
\* the renderer's class must be FourierRenderer
FitMulti(data_shape, weight_shape, psf, mask, sky_model, kind, x64) ==
    LET f == FitSingle(data_shape, weight_shape, psf, mask, sky_model, "sersic", kind, x64)
    IN  IF f.status # "ok" THEN f
        ELSE IF kind # "Fourier"
        THEN [status |-> "AssertionError", obj |-> NoFit, renderer |-> f.renderer]
        ELSE f

\* the model of build_model samples "obs" under numpyro.handlers.mask(mask =
\* self.mask): the pixels whose log-probability is kept are those where the
\* stored mask is True
ObservedPixels(f) == {ij \in DOMAIN f.mask : f.mask[ij]}

\* a variant whose tilted plane has no prior for the last slope
generate_sky_priors_two(sky_model) ==
    IF sky_model = "flat" THEN {"sky0"}
    ELSE IF sky_model = "tilted-plane" THEN {"sky0", "sky1"}
    ELSE {}

\* FitSingle.generate_sky_priors: the parameters it calls set_prior for
generate_sky_priors(sky_model) ==
    IF sky_model = "flat" THEN {"sky0"}
    ELSE IF sky_model = "tilted-plane" THEN {"sky0", "sky1", "sky2"}
    ELSE {}

\* pysersic.utils.sample_sky(prior_dict, sky_type): 0 for None, the sample of
\* sky0 for 'flat', otherwise the array of the samples of sky0, sky1, sky2.
\* prior_dict is the set of its keys and draw the value each site samples.
sample_sky(prior_dict, sky_type, draw) ==
    IF sky_type = "None" THEN [status |-> "ok", x |-> Scalar(0)]
    ELSE IF sky_type = "flat"
    THEN IF "sky0" \in prior_dict THEN [status |-> "ok", x |-> Scalar(draw["sky0"])]
         ELSE [status |-> "KeyError", x |-> Scalar(0)]
    ELSE IF {"sky0", "sky1", "sky2"} \subseteq prior_dict
    THEN [status |-> "ok", x |-> Array1(<<draw["sky0"], draw["sky1"], draw["sky2"]>>)]
    ELSE [status |-> "KeyError", x |-> Scalar(0)]

\* the number of values of x that render_sky uses: none for None, all of x
\* for 'flat' (flat_sky returns x), x[0], x[1], x[2] otherwise
SkyValuesRead(x, sky_type) ==
    IF sky_type = "None" THEN 0
    ELSE IF sky_type = "flat" THEN (IF x.ndim = 0 THEN 1 ELSE Len(x.v))
    ELSE Cardinality({0, 1, 2})

----------------------------------------------------------------------------
(* Ingesting inference results (pysersic.py and utils/results.py) *)

\* 'word' in var, for a name made of words
Contains(var, word) == \E i \in DOMAIN var : var[i] = word

\* posterior.drop_vars(to_drop)
DropVars(posterior, to_drop) ==
    [n \in DOMAIN posterior \ to_drop |-> posterior[n]]

\* az.from_numpyro(sampler) and az.from_dict(post_dict)
InferenceData(posterior) == [type |-> "InferenceData", posterior |-> posterior]

SviKeys == {"guide", "model", "svi_result"}

\* FitSingle.injest_data(sampler, svi_res_dict, purge_extra) on an object
\* whose az_data is az_data: the status and the new az_data
FitSingleInjest(az_data, sampler, svi_res_dict, purge_extra) ==
    LET purged(d) ==
            IF purge_extra
            THEN [type |-> "Dataset",
                  posterior |-> DropVars(d.posterior,
                                   {n \in DOMAIN d.posterior :
                                       Contains(n, "base") \/ Contains(n, "auto")})]
            ELSE d
    IN  IF ~sampler.given /\ ~svi_res_dict.given
        THEN [status |-> "AssertionError", az_data |-> az_data]
        ELSE IF sampler.given
        THEN [status |-> "ok", az_data |-> purged(InferenceData(sampler.posterior))]
        ELSE IF ~(SviKeys \subseteq svi_res_dict.keys)
        THEN [status |-> "AssertionError", az_data |-> az_data]
        ELSE [status |-> "ok", az_data |-> purged(InferenceData(svi_res_dict.posterior))]

\* np.remainder(theta + pi, pi), in quarters of pi
ThetaRemainder(v) == (v + 4) % 4

\* PySersicResults.parse_injested_data(data, purge_extra): the angles are
\* reduced in place; to_drop is assigned only under purge_extra, and line 107
\* reads it in either case.  data is the object as the call leaves it.
parse_injested_data(data, purge_extra) ==
    LET thetas == [n \in DOMAIN data.posterior |->
                      IF Contains(n, "theta") THEN ThetaRemainder(data.posterior[n])
                      ELSE data.posterior[n]]
        to_drop == {n \in DOMAIN data.posterior :
                       Contains(n, "base") \/ Contains(n, "auto")
                           \/ Contains(n, "unwrapped")}
    IN  IF purge_extra
        THEN [status |-> "ok",
              data |-> [data EXCEPT !.posterior = DropVars(thetas, to_drop)]]
        ELSE [status |-> "UnboundLocalError",
              data |-> [data EXCEPT !.posterior = thetas]]

NoResults == [state |-> "none", sampling_results |-> NoData, svi_results |-> NoData]

\* PySersicResults.injest_data(sampler, svi_res_dict, purge_extra) on the
\* object o: the status and the object after the call.  The sampler branch
\* calls self.parse, an attribute the class does not have.
ResultsInjest(o, sampler, svi_res_dict, purge_extra) ==
    IF ~sampler.given /\ ~svi_res_dict.given
    THEN [status |-> "AssertionError", obj |-> o]
    ELSE IF sampler.given
    THEN [status |-> "AttributeError",
          obj |-> [o EXCEPT !.sampling_results = InferenceData(sampler.posterior)]]
    ELSE IF ~(SviKeys \subseteq svi_res_dict.keys)
    THEN [status |-> "AssertionError", obj |-> o]
    ELSE LET p == parse_injested_data(InferenceData(svi_res_dict.posterior), purge_extra)
         IN  [status |-> p.status, obj |-> [o EXCEPT !.svi_results = p.data]]

----------------------------------------------------------------------------
(* Construction *)

Shapes(n) == (1 .. n) \X (1 .. n)

\* PSF sums around the two ends of the accepted interval, in units of 1e-8
PsfSums ==
    { SumUnit,
      SumUnit - SumUnit \div 10, SumUnit - SumUnit \div 10 - 1, SumUnit - SumUnit \div 10 - 2,
      SumUnit + SumUnit \div 10, SumUnit + SumUnit \div 10 + 1, SumUnit + SumUnit \div 10 + 2,
      SumUnit \div 2 }

\* the value a constructor sees for the keyword: "omitted", "True" or "False"
\* in the call
KeywordValue(use_poly_fit_amps) ==
    IF use_poly_fit_amps = "omitted" THEN use_poly_fit_amps_default
    ELSE use_poly_fit_amps = "True"

\* A slot is the identity of one object: its constructor runs once.  A
\* constructor that raises leaves no object behind (kind "raised").
Construct(slot, kind, im_shape, psf, n_sigma, num_pixel_render, use_poly_fit_amps) ==
    LET r == Renderer(kind, im_shape, psf, n_sigma, num_pixel_render,
                      KeywordValue(use_poly_fit_amps), jax_enable_x64)
    IN  /\ renderers[slot].kind = "none"
        /\ renderers' = IF r.status = "ok"
                        THEN [renderers EXCEPT ![slot] = r.obj]
                        ELSE [renderers EXCEPT ![slot] = Raised]
        /\ res' = [InitRes EXCEPT !.op = "construct", !.slot = slot,
                                  !.out = [Err(r.status) EXCEPT !.quad = r.quad,
                                                                !.printed = r.printed],
                                  !.call = [NoCall EXCEPT !.kind = kind,
                                                          !.im_shape = im_shape,
                                                          !.psf = psf,
                                                          !.use_poly_fit_amps =
                                                              use_poly_fit_amps]]
        /\ UNCHANGED <<jax_enable_x64, fit, results>>

\* PixelRenderer(im_shape, pixel_PSF, os_pixel_size=os_pixel_size)
ConstructPixel(slot, im_shape, psf, os_pixel_size) ==
    LET r == PixelRenderer(im_shape, psf, os_pixel_size)
    IN  /\ renderers[slot].kind = "none"
        /\ renderers' = IF r.status = "ok"
                        THEN [renderers EXCEPT ![slot] = r.obj]
                        ELSE [renderers EXCEPT ![slot] = Raised]
        /\ res' = [InitRes EXCEPT !.op = "construct", !.slot = slot,
                                  !.out = Err(r.status),
                                  !.call = [NoCall EXCEPT !.kind = "Pixel",
                                                          !.im_shape = im_shape,
                                                          !.psf = psf]]
        /\ UNCHANGED <<jax_enable_x64, fit, results>>

RenderSource(slot, params, profile_type) ==
    LET r == renderers[slot]
        out == render_source(r, params, profile_type)
    IN  /\ r.kind \in Kinds
        /\ res' = [InitRes EXCEPT !.op = "render_source", !.slot = slot,
                                  !.out = out,
                                  !.call = [NoCall EXCEPT !.tag = profile_type,
                                                          !.params = params]]
        /\ UNCHANGED <<renderers, jax_enable_x64, fit, results>>

\* FitSingle(data, weight_map, psf_map, mask, sky_model, profile_type,
\* renderer): the object and its renderer (slot 1), or the exception
FitSingleInit(data_shape, weight_shape, psf, mask, sky_model, profile_type, kind) ==
    LET f == FitSingle(data_shape, weight_shape, psf, mask, sky_model, profile_type,
                       kind, jax_enable_x64)
    IN  /\ fit.state = "none"
        /\ renderers[1].kind = "none"
        /\ fit' = IF f.status = "ok" THEN f.obj ELSE [NoFit EXCEPT !.state = "raised"]
        /\ renderers' = IF f.status = "ok"
                        THEN [renderers EXCEPT ![1] = f.renderer.obj]
                        ELSE [renderers EXCEPT ![1] = Raised]
        /\ res' = [InitRes EXCEPT !.op = "FitSingle", !.slot = 1,
                                  !.out = Err(f.status),
                                  !.call = [NoCall EXCEPT !.kind = kind,
                                                          !.im_shape = data_shape,
                                                          !.weight_shape = weight_shape,
                                                          !.psf = psf,
                                                          !.mask = mask,
                                                          !.sky_model = sky_model,
                                                          !.profile_type = profile_type]]
        /\ UNCHANGED <<jax_enable_x64, results>>

\* FitMulti(data, weight_map, psf_map, mask, sky_model, renderer)
FitMultiInit(data_shape, weight_shape, psf, mask, sky_model, kind) ==
    LET f == FitMulti(data_shape, weight_shape, psf, mask, sky_model, kind, jax_enable_x64)
    IN  /\ fit.state = "none"
        /\ renderers[1].kind = "none"
        /\ fit' = IF f.status = "ok" THEN f.obj ELSE [NoFit EXCEPT !.state = "raised"]
        /\ renderers' = IF f.status = "ok"
                        THEN [renderers EXCEPT ![1] = f.renderer.obj]
                        ELSE [renderers EXCEPT ![1] = Raised]
        /\ res' = [InitRes EXCEPT !.op = "FitMulti", !.slot = 1,
                                  !.out = Err(f.status),
                                  !.call = [NoCall EXCEPT !.kind = kind,
                                                          !.im_shape = data_shape,
                                                          !.weight_shape = weight_shape,
                                                          !.psf = psf,
                                                          !.mask = mask,
                                                          !.sky_model = sky_model]]
        /\ UNCHANGED <<jax_enable_x64, results>>

\* sersic_gauss_decomp called on its own
SersicGaussDecomp(log_sigma_start, log_sigma_end, n_comp) ==
    /\ res' = [InitRes EXCEPT
                  !.op = "sersic_gauss_decomp",
                  !.out = [Err("ok") EXCEPT
                             !.decomp = sersic_gauss_decomp(log_sigma_start,
                                                            log_sigma_end, n_comp)],
                  !.call = [NoCall EXCEPT
                              !.params = <<log_sigma_start, log_sigma_end, n_comp>>]]
    /\ UNCHANGED <<renderers, jax_enable_x64, fit, results>>

\* renderer.get_amps_sigmas(flux, r_eff, n), as every Sersic render calls it
GetAmpsSigmas(slot, log_r_eff) ==
    LET r == renderers[slot]
    IN  /\ r.kind \in {"Fourier", "Hybrid"}
        /\ res' = [InitRes EXCEPT !.op = "get_amps_sigmas", !.slot = slot,
                                  !.out = [Err("ok") EXCEPT
                                             !.decomp = AmpsSigmas(r, log_r_eff)],
                                  !.call = [NoCall EXCEPT !.params = <<log_r_eff>>]]
        /\ UNCHANGED <<renderers, jax_enable_x64, fit, results>>

\* fit.set_prior(parameter, distribution)
SetPrior(parameter) ==
    /\ fit.state = "ok"
    /\ fit' = [fit EXCEPT !.prior_dict = @ \cup {parameter}]
    /\ res' = [InitRes EXCEPT !.op = "set_prior", !.slot = 1, !.out = Err("ok"),
                              !.call = [NoCall EXCEPT !.tag = parameter]]
    /\ UNCHANGED <<renderers, jax_enable_x64, results>>

\* fit.generate_sky_priors()
GenerateSkyPriors ==
    /\ fit.state = "ok"
    /\ fit' = [fit EXCEPT !.prior_dict = @ \cup generate_sky_priors(fit.sky_model)]
    /\ res' = [InitRes EXCEPT !.op = "generate_sky_priors", !.slot = 1, !.out = Err("ok"),
                              !.call = [NoCall EXCEPT !.prior_dict = fit.prior_dict]]
    /\ UNCHANGED <<renderers, jax_enable_x64, results>>

\* the sky of one run of the model that build_model returns: sample_sky,
\* then render_sky on the renderer of the fit (lines 152-153)
ModelSky(draw) ==
    LET sky_params == sample_sky(fit.prior_dict, fit.sky_model, draw)
    IN  /\ fit.state = "ok"
        /\ res' = [InitRes EXCEPT
                      !.op = "model",
                      !.slot = 1,
                      !.out = IF sky_params.status # "ok" THEN Err(sky_params.status)
                              ELSE render_sky(renderers[1], sky_params.x, fit.sky_model),
                      !.call = [NoCall EXCEPT !.tag = fit.sky_model,
                                              !.x = sky_params.x,
                                              !.prior_dict = fit.prior_dict]]
        /\ UNCHANGED <<renderers, jax_enable_x64, fit, results>>

FitInjestData(sampler, svi_res_dict, purge_extra) ==
    LET i == FitSingleInjest(fit.az_data, sampler, svi_res_dict, purge_extra)
    IN  /\ fit.state = "ok"
        /\ fit' = [fit EXCEPT !.az_data = i.az_data]
        /\ res' = [InitRes EXCEPT !.op = "FitSingle.injest_data", !.slot = 1,
                                  !.out = Err(i.status),
                                  !.call = [NoCall EXCEPT !.sampler = sampler,
                                                          !.svi_res_dict = svi_res_dict,
                                                          !.purge_extra = purge_extra]]
        /\ UNCHANGED <<renderers, jax_enable_x64, results>>

\* PySersicResults(data, rms, psf): the attributes are stored as given
ResultsInit ==
    /\ results.state = "none"
    /\ results' = [NoResults EXCEPT !.state = "ok"]
    /\ res' = [InitRes EXCEPT !.op = "PySersicResults", !.out = Err("ok")]
    /\ UNCHANGED <<renderers, jax_enable_x64, fit>>

ResultsInjestData(sampler, svi_res_dict, purge_extra) ==
    LET i == ResultsInjest(results, sampler, svi_res_dict, purge_extra)
    IN  /\ results.state = "ok"
        /\ results' = i.obj
        /\ res' = [InitRes EXCEPT !.op = "PySersicResults.injest_data",
                                  !.out = Err(i.status),
                                  !.call = [NoCall EXCEPT !.sampler = sampler,
                                                          !.svi_res_dict = svi_res_dict,
                                                          !.purge_extra = purge_extra]]
        /\ UNCHANGED <<renderers, jax_enable_x64, fit>>

\* results.parse_injested_data(data, purge_extra) called on its own
ParseInjestedData(data, purge_extra) ==
    LET p == parse_injested_data(data, purge_extra)
    IN  /\ results.state = "ok"
        /\ res' = [InitRes EXCEPT !.op = "parse_injested_data",
                                  !.out = [Err(p.status) EXCEPT !.data = p.data],
                                  !.call = [NoCall EXCEPT !.data = data,
                                                          !.purge_extra = purge_extra]]
        /\ UNCHANGED <<renderers, jax_enable_x64, fit, results>>

\* a variant that keeps the list it rendered on the object
RenderMultiCaching(slot, type_list, var_list) ==
    LET r == renderers[slot]
        out == render_multi(r, type_list, var_list)
    IN  /\ r.kind \in Kinds
        /\ res' = [InitRes EXCEPT !.op = "render_multi", !.slot = slot,
                                  !.out = out,
                                  !.call = [NoCall EXCEPT !.types = type_list,
                                                          !.vars = var_list]]
        /\ renderers' = [renderers EXCEPT ![slot].profile_types = type_list]
        /\ UNCHANGED <<jax_enable_x64, fit, results>>

RenderMulti(slot, type_list, var_list) ==
    LET r == renderers[slot]
        out == render_multi(r, type_list, var_list)
    IN  /\ r.kind \in Kinds
        /\ res' = [InitRes EXCEPT !.op = "render_multi", !.slot = slot,
                                  !.out = out,
                                  !.call = [NoCall EXCEPT !.types = type_list,
                                                          !.vars = var_list]]
        /\ UNCHANGED <<renderers, jax_enable_x64, fit, results>>

RenderSky(slot, x, sky_type) ==
    LET r == renderers[slot]
        out == render_sky(r, x, sky_type)
    IN  /\ r.kind \in Kinds
        /\ res' = [InitRes EXCEPT !.op = "render_sky", !.slot = slot,
                                  !.out = out,
                                  !.call = [NoCall EXCEPT !.tag = sky_type, !.x = x]]
        /\ UNCHANGED <<renderers, jax_enable_x64, fit, results>>

----------------------------------------------------------------------------
(* Inputs *)

ProfileTypes == {base_profile_types[i] : i \in DOMAIN base_profile_types}

\* the values a sampled parameter takes, by its declared name; fluxes and the
\* flux fraction f_1 are in tenths
ParamValues(name) ==
    CASE name \in {"xc", "yc"} -> {1}
      [] name = "flux" -> {10}
      [] name = "f_1" -> {3}
      [] name \in {"r_eff", "r_eff_1"} -> {2}
      [] name = "r_eff_2" -> {3}
      [] name \in {"n", "n_2"} -> {1, 4}
      [] name = "n_1" -> {1}
      [] name \in {"ellip", "ellip_1", "ellip_2", "theta"} -> {0}

RECURSIVE Vectors(_)
Vectors(names) ==
    IF names = <<>> THEN {<<>>}
    ELSE {<<v>> \o rest : v \in ParamValues(Head(names)), rest \in Vectors(Tail(names))}

\* sample_func_dict[profile_type](prior_dict): one value per declared
\* parameter name, in the declared order
sample_func(profile_type) == Vectors(base_profile_params[profile_type])

\* a source: a profile type with a vector sampled for it
Sources == UNION {{<<t, v>> : v \in sample_func(t)} : t \in ProfileTypes}

\* tags that are not profile types
OtherTags == {"sky", "multi", "source", "int_sersic", "sersic_mog_fourier", "sersic_hyrbid", "gauss"}

AnyVector == CHOOSE v \in sample_func("sersic") : v[5] = 1

\* the entries of the lists given to render_multi
Entries == {e \in Sources : e[1] = "doublesersic" => e[2][9] = 4}
               \cup {<<"gauss", AnyVector>>}

Lists == UNION {[1 .. k -> Entries] : k \in 0 .. MaxSources}

TypesOf(l) == [i \in DOMAIN l |-> l[i][1]]
VarsOf(l) == [i \in DOMAIN l |-> l[i][2]]

SkyCalls ==
    {<<Scalar(0), "None">>, <<Scalar(7), "None">>, <<Scalar(3), "flat">>,
     <<Array1(<<10, 1, -2>>), "tilted-plane">>, <<Array1(<<10, 1, -2>>), "plane">>}

UnitPSF == [shape |-> <<1, 1>>, sum |-> SumUnit]


----------------------------------------------------------------------------
(* Specifications *)

Init ==
    /\ renderers = [s \in Slots |-> NoRenderer]
    /\ res = InitRes
    /\ jax_enable_x64 \in BOOLEAN
    /\ fit = NoFit
    /\ results = NoResults

ShortLists == {l \in Lists : Len(l) <= 1}

\* construction over rectangular images and PSFs of every size and sum, and
\* the renders of one source on what was constructed
NextCtor ==
    \/ \E kind \in Kinds, im_shape \in Shapes(MaxDim), pshape \in Shapes(MaxPsfDim),
          psum \in PsfSums :
          Construct(1, kind, im_shape, [shape |-> pshape, sum |-> psum],
                    NSigma, NumPixelRender, "omitted")
    \/ \E src \in Sources : RenderSource(1, src[2], src[1])
    \/ \E l \in ShortLists : RenderMulti(1, TypesOf(l), VarsOf(l))

SpecCtor == Init /\ [][NextCtor]_vars

\* one renderer of each class on a square image, and every render call on it
Next ==
    \/ \E kind \in Kinds :
          Construct(1, kind, <<RenderDim, RenderDim>>, UnitPSF, NSigma, NumPixelRender,
                    "omitted")
    \/ \E src \in Sources : RenderSource(1, src[2], src[1])
    \/ \E tag \in OtherTags : RenderSource(1, AnyVector, tag)
    \/ \E l \in Lists : RenderMulti(1, TypesOf(l), VarsOf(l))
    \/ \E c \in SkyCalls : RenderSky(1, c[1], c[2])

Spec == Init /\ [][Next]_vars

\* two renderers side by side
NextTwo ==
    \/ \E slot \in Slots, kind \in Kinds :
          Construct(slot, kind, <<RenderDim, RenderDim>>, UnitPSF, NSigma, NumPixelRender,
                    "omitted")
    \/ \E slot \in Slots, src \in Sources : RenderSource(slot, src[2], src[1])
    \/ \E slot \in Slots, l \in ShortLists : RenderMulti(slot, TypesOf(l), VarsOf(l))
    \/ \E slot \in Slots, c \in SkyCalls : RenderSky(slot, c[1], c[2])

SpecTwo == Init /\ [][NextTwo]_vars

\* the sky models on grids of every size
SkyValues == {<<a, b, c>> : a \in {0, 10}, b \in {-2, 0, 1}, c \in {-2, 1}}

SkyInputs ==
    {<<Scalar(c), t>> : c \in {0, 3}, t \in {"None", "flat"}}
        \cup {<<Array1(x), t>> : x \in SkyValues, t \in {"None", "flat", "tilted-plane"}}

NextSky ==
    \/ \E kind \in Kinds, im_shape \in Shapes(MaxSkyDim) :
          Construct(1, kind, im_shape, UnitPSF, NSigma, NumPixelRender, "omitted")
    \/ \E c \in SkyInputs : RenderSky(1, c[1], c[2])

SpecSky == Init /\ [][NextSky]_vars

\* pixel renderers with every size of the oversampled box on images of every
\* size, and the renders of one source on them
MaxOsDim == 5

MaxOsPixelSize == 3

NextOs ==
    \/ \E im_shape \in Shapes(MaxOsDim), os_pixel_size \in 0 .. MaxOsPixelSize :
          ConstructPixel(1, im_shape, UnitPSF, os_pixel_size)
    \/ \E src \in Sources : RenderSource(1, src[2], src[1])

SpecOs == Init /\ [][NextOs]_vars

\* the ways a call can give the keyword use_poly_fit_amps
Keywords == {"omitted", "True", "False"}

\* one renderer constructed in either decomposition mode, with or without
\* 64-bit precision, and the renders on it
NextMode ==
    \/ \E kind \in Kinds, kw \in Keywords :
          Construct(1, kind, <<RenderDim, RenderDim>>, UnitPSF, NSigma, NumPixelRender, kw)
    \/ \E src \in Sources : RenderSource(1, src[2], src[1])
    \/ \E l \in Lists : RenderMulti(1, TypesOf(l), VarsOf(l))

SpecMode == Init /\ [][NextMode]_vars

\* bounds of the point-source images
MaxPointDim == 3
MaxPointPsfDim == 2

\* the arrays of shape sh whose entries are whole parts adding up to PsfParts
PsfArrays(sh) ==
    LET idx == (0 .. sh[1] - 1) \X (0 .. sh[2] - 1)
    IN  {d \in [idx -> 0 .. PsfParts] : SumOver(idx, d) = PsfParts}

\* normalized PSFs with their entries
PointPsfs ==
    UNION {{[shape |-> sh, sum |-> SumUnit, data |-> d] : d \in PsfArrays(sh)} :
              sh \in Shapes(MaxPointPsfDim)}

\* point sources of flux 3.0 at every half pixel of an image of side n
PointSources(n) == {<<xc, yc, 30>> : xc \in 0 .. 2 * n, yc \in 0 .. 2 * n}

\* renderers on square images with PSFs given entry by entry, and the point
\* sources rendered on them
NextPoint ==
    \/ \E kind \in Kinds, n \in 1 .. MaxPointDim, psf \in PointPsfs :
          Construct(1, kind, <<n, n>>, psf, NSigma, NumPixelRender, "omitted")
    \/ \E p \in PointSources(MaxPointDim) :
          /\ p[1] <= 2 * renderers[1].im_shape[1]
          /\ p[2] <= 2 * renderers[1].im_shape[2]
          /\ RenderSource(1, p, "pointsource")

SpecPoint == Init /\ [][NextPoint]_vars

\* the arguments of FitSingle
FitShapes == {<<1, 1>>, <<RenderDim, RenderDim>>}

HalfPSF == [shape |-> <<1, 1>>, sum |-> SumUnit \div 2]

Masks(data_shape) ==
    LET idx == (0 .. data_shape[1] - 1) \X (0 .. data_shape[2] - 1)
    IN  {NoMask, [given |-> TRUE, v |-> [ij \in idx |-> FALSE]],
         [given |-> TRUE, v |-> [ij \in idx |-> ij = <<0, 0>>]]}

\* FitSingle objects made from every combination of valid and invalid
\* arguments
NextFit ==
    \/ \E data_shape \in FitShapes, weight_shape \in FitShapes, psf \in {UnitPSF, HalfPSF},
          sky_model \in SkyModels \cup {"plane"}, kind \in Kinds :
             \E mask \in Masks(data_shape) :
                FitMultiInit(data_shape, weight_shape, psf, mask, sky_model, kind)
    \/ \E data_shape \in FitShapes, weight_shape \in FitShapes, psf \in {UnitPSF, HalfPSF},
       sky_model \in SkyModels \cup {"plane"},
       profile_type \in FitProfileTypes \cup {"gauss"}, kind \in Kinds :
          \E mask \in Masks(data_shape) :
             FitSingleInit(data_shape, weight_shape, psf, mask, sky_model, profile_type, kind)

SpecFit == Init /\ [][NextFit]_vars

\* sky tags given to a fit and to render_sky directly, the three of FitSingle
\* and others
SkyTags == SkyModels \cup {"plane", "tilted_plane", "Flat", "tilted-plane "}

NextTag ==
    \/ \E data_shape \in FitShapes, sky_model \in SkyTags, kind \in Kinds :
          FitSingleInit(data_shape, data_shape, UnitPSF, NoMask, sky_model, "sersic", kind)
    \/ \E x \in {Array1(v) : v \in SkyValues} \cup {Array1(<<10, 1, -2, 5>>)},
          sky_type \in SkyTags :
          RenderSky(1, x, sky_type)

SpecTag == Init /\ [][NextTag]_vars

\* the settings of the component split: every n_sigma with every
\* num_pixel_render from none to more than there are components
SplitSettings == {<<n, k>> : n \in 1 .. NSigma, k \in 0 .. NSigma + 1}

\* a HybridRenderer with each setting of the split, and its renders
NextSplit ==
    \/ \E c \in SplitSettings, kw \in Keywords :
          Construct(1, "Hybrid", <<RenderDim, RenderDim>>, UnitPSF, c[1], c[2], kw)
    \/ \E src \in Sources : RenderSource(1, src[2], src[1])

SpecSplit == Init /\ [][NextSplit]_vars

\* log10 of the effective radii and of the ends of a grid, in thousandths
LogReffs == {-301, 0, 699}

LogSigmaStarts == {-2000, -1000}

LogSigmaEnds == {1176, 2000}

\* decompositions with every number of components, and the component sets of
\* Fourier and Hybrid renderers in either mode
NextDecomp ==
    \/ \E kind \in {"Fourier", "Hybrid"}, n_sigma \in 1 .. NSigma + 1, kw \in Keywords :
          Construct(1, kind, <<RenderDim, RenderDim>>, UnitPSF, n_sigma, NumPixelRender, kw)
    \/ \E a \in LogSigmaStarts, b \in LogSigmaEnds, n_comp \in 1 .. NSigma + 1 :
          SersicGaussDecomp(a, b, n_comp)
    \/ \E log_r_eff \in LogReffs : GetAmpsSigmas(1, log_r_eff)

SpecDecomp == Init /\ [][NextDecomp]_vars

\* the names of the sky parameters and the values their sites sample, in
\* tenths
SkyNames == {"sky0", "sky1", "sky2"}

SkyDraws == [SkyNames -> {-2, 1}]

\* a FitSingle with each sky model, its priors, and the sky of its model
NextSkyFit ==
    \/ \E sky_model \in SkyModels, kind \in Kinds :
          FitSingleInit(<<RenderDim, RenderDim>>, <<RenderDim, RenderDim>>, UnitPSF, NoMask,
                        sky_model, "sersic", kind)
    \/ \E parameter \in SkyNames : SetPrior(parameter)
    \/ GenerateSkyPriors
    \/ \E draw \in SkyDraws : ModelSky(draw)

SpecSkyFit == Init /\ [][NextSkyFit]_vars

\* posteriors: with and without reparameterisation variables
Posteriors ==
    { (<<"flux">> :> 2) @@ (<<"theta">> :> 5) @@ (<<"r_eff", "base">> :> 1)
          @@ (<<"flux", "auto", "loc">> :> 3) @@ (<<"theta", "unwrapped">> :> -3),
      (<<"flux">> :> 2) @@ (<<"theta">> :> 1) }

Samplers ==
    {NoCall.sampler} \cup {[given |-> TRUE, posterior |-> q] : q \in Posteriors}

SviDicts ==
    {NoCall.svi_res_dict}
        \cup {[given |-> TRUE, keys |-> SviKeys, posterior |-> q] : q \in Posteriors}
        \cup {[given |-> TRUE, keys |-> {"model", "svi_result"}, posterior |-> q] :
                 q \in Posteriors}

\* one FitSingle and one PySersicResults object, and the results ingested
\* into them
NextInjest ==
    \/ FitSingleInit(<<RenderDim, RenderDim>>, <<RenderDim, RenderDim>>, UnitPSF, NoMask,
                     "None", "sersic", "Fourier")
    \/ ResultsInit
    \/ \E sampler \in Samplers, svi \in SviDicts, purge_extra \in BOOLEAN :
          FitInjestData(sampler, svi, purge_extra)
    \/ \E sampler \in Samplers, svi \in SviDicts, purge_extra \in BOOLEAN :
          ResultsInjestData(sampler, svi, purge_extra)
    \/ \E q \in Posteriors, purge_extra \in BOOLEAN :
          ParseInjestedData(InferenceData(q), purge_extra)

SpecInjest == Init /\ [][NextInjest]_vars

----------------------------------------------------------------------------
(* Properties *)

\* the renderer the last call was made on
Self == renderers[res.slot]

IsRender == res.op \in {"render_source", "render_multi"}

\* C1: constructing a renderer with a normalized PSF that is larger than the
\* image in at least one axis fails with KernelError and yields no renderer.
C1_KernelTooLargeRaises ==
    (/\ res.op = "construct"
     /\ res.call.psf.sum = SumUnit
     /\ \/ res.call.psf.shape[1] > res.call.im_shape[1]
        \/ res.call.psf.shape[2] > res.call.im_shape[2])
        => (res.out.status = "KernelError" /\ renderers[res.slot].kind = "raised")

\* C2: render_source with a tag outside the five profile types raises, and so
\* does render_multi on a list that holds such a tag; neither returns a value.
C2_UnknownTagFails ==
    /\ (res.op = "render_source" /\ res.call.tag \notin ProfileTypes)
          => res.out.status # "ok"
    /\ (res.op = "render_multi"
           /\ \E i \in DOMAIN res.call.types : res.call.types[i] \notin ProfileTypes)
          => res.out.status # "ok"

\* the list in which every 'exp' / 'dev' entry is written as the 'sersic' entry
\* with index 1 / 4
SersicTypes(types) ==
    [i \in DOMAIN types |-> IF types[i] \in {"exp", "dev"} THEN "sersic" ELSE types[i]]

SersicVars(types, vs) ==
    [i \in DOMAIN types |->
        IF types[i] = "exp" THEN WithIndex(vs[i], 1)
        ELSE IF types[i] = "dev" THEN WithIndex(vs[i], 4)
        ELSE vs[i]]

\* C3: rendering 'exp' (resp. 'dev') gives what rendering 'sersic' with n = 1
\* (resp. 4) gives through the same operation, render_source or render_multi.
C3_ExpDevAreSersic ==
    /\ (res.op = "render_source" /\ res.call.tag = "exp")
          => res.out = render_source(Self, WithIndex(res.call.params, 1), "sersic")
    /\ (res.op = "render_source" /\ res.call.tag = "dev")
          => res.out = render_source(Self, WithIndex(res.call.params, 4), "sersic")
    /\ res.op = "render_multi"
          => res.out = render_multi(Self, SersicTypes(res.call.types),
                                    SersicVars(res.call.types, res.call.vars))

RECURSIVE SumOfSources(_, _, _, _)
SumOfSources(r, types, vs, i) ==
    IF i > Len(types) THEN ZeroImage
    ELSE ImagePlus(render_source(r, vs[i], types[i]).image,
                   SumOfSources(r, types, vs, i + 1))

\* C4: render_multi over profile types gives the sum of the render_source
\* images of its entries.
C4_MultiIsSumOfSources ==
    (/\ res.op = "render_multi"
     /\ \A i \in DOMAIN res.call.types : res.call.types[i] \in ProfileTypes)
        => /\ res.out.status = "ok"
           /\ res.out.image = SumOfSources(Self, res.call.types, res.call.vars, 1)

Perms(n) == {f \in [1 .. n -> 1 .. n] : \A i, j \in 1 .. n : f[i] = f[j] => i = j}

Permuted(l, f) == [i \in DOMAIN l |-> l[f[i]]]

\* C5: the result of render_multi is the same for every joint permutation of
\* type_list and var_list.
C5_PermutationInvariant ==
    res.op = "render_multi"
        => \A f \in Perms(Len(res.call.types)) :
              render_multi(Self, Permuted(res.call.types, f), Permuted(res.call.vars, f))
                  = res.out

\* a list of two different entries, a point source after an extended profile,
\* was rendered by the pixel renderer
C5_Witness ==
    /\ res.op = "render_multi"
    /\ res.out.status = "ok"
    /\ Self.kind = "Pixel"
    /\ Len(res.call.types) >= 2
    /\ res.call.types[1] = "sersic"
    /\ res.call.types[2] = "pointsource"
    /\ BagCardinality(res.out.image.conv) = 1
    /\ BagCardinality(res.out.image.direct) = 1

\* C6: for every image shape and every PSF of sum 1 that fits in the image,
\* construction succeeds, and every render returns an array of the image shape.
C6_ShapeIsImageShape ==
    /\ (/\ res.op = "construct"
        /\ res.call.psf.sum = SumUnit
        /\ res.call.psf.shape[1] <= res.call.im_shape[1]
        /\ res.call.psf.shape[2] <= res.call.im_shape[2])
          => res.out.status = "ok"
    /\ IsRender => (res.out.status = "ok" /\ res.out.shape = Self.im_shape)

\* C7: render_sky gives 0 for the tag None, the parameter itself for 'flat',
\* and for 'tilted-plane' with [a, b, c] the value a + b*(x - x_mid) +
\* c*(y - y_mid) at every pixel, x the column and y the row coordinate of the
\* pixel and x_mid, y_mid the middles of their ranges (values in twentieths).
C7_SkyModels ==
    res.op = "render_sky" =>
        LET x == res.call.x
            sky == res.out.sky
            rows == Self.X_shape[1]
            cols == Self.X_shape[2]
        IN  /\ res.call.tag = "None" => (res.out.status = "ok" /\ sky = Scalar(0))
            /\ res.call.tag = "flat" => (res.out.status = "ok" /\ sky = x)
            /\ (res.call.tag = "tilted-plane" /\ x.ndim = 1 /\ Len(x.v) = 3) =>
                  /\ res.out.status = "ok"
                  /\ sky.ndim = 2
                  /\ DOMAIN sky.v = (0 .. rows - 1) \X (0 .. cols - 1)
                  /\ \A ij \in DOMAIN sky.v :
                        sky.v[ij] = 2 * x.v[1] + x.v[2] * (2 * ij[2] - (0 + (cols - 1)))
                                               + x.v[3] * (2 * ij[1] - (0 + (rows - 1)))

\* the plane a = 1, b = 0.1, c = -0.2 was rendered on a 5x5 grid
C7_Witness ==
    /\ res.op = "render_sky"
    /\ res.out.status = "ok"
    /\ res.call.tag = "tilted-plane"
    /\ res.call.x = Array1(<<10, 1, -2>>)
    /\ Self.im_shape = <<5, 5>>
    /\ res.out.sky.v[<<0, 4>>] = 20 + 4 + 8

\* C8: construction passes the normalisation check exactly when
\* |sum(psf) - 1| <= 0.1.
C8_AbsoluteTolerance ==
    res.op = "construct"
        => ((res.out.status # "PSFNormalizationWarning")
               <=> (Abs(res.call.psf.sum - SumUnit) <= SumUnit \div 10))

\* C9: every profile type declares as many parameters as render_<type> takes
\* (sersic 7, doublesersic 11, pointsource 3, exp 6, dev 6), and a vector
\* sampled for a type binds in render_source and in render_multi without an
\* arity error.
C9_ParamArity ==
    /\ \A t \in ProfileTypes : Len(base_profile_params[t]) = Arity(t)
    /\ Arity("sersic") = 7 /\ Arity("doublesersic") = 11 /\ Arity("pointsource") = 3
    /\ Arity("exp") = 6 /\ Arity("dev") = 6
    /\ (res.op = "render_source" /\ res.call.tag \in ProfileTypes)
          => /\ Len(res.call.params) = Len(base_profile_params[res.call.tag])
             /\ res.out.status = "ok"
    /\ res.op = "render_multi" => res.out.status = "ok"

\* a double Sersic vector of eleven values was rendered by render_source
C9_Witness ==
    /\ res.op = "render_source"
    /\ res.call.tag = "doublesersic"
    /\ Len(res.call.params) = 11
    /\ res.out.status = "ok"

\* C10: a constructed renderer never changes, whatever is called on it or on
\* another renderer.
C10_RenderersImmutable ==
    [][\A s \in Slots : renderers[s].kind \in Kinds => renderers'[s] = renderers[s]]_vars

\* a list was rendered on one of two constructed renderers
C10_Witness ==
    /\ \A s \in Slots : renderers[s].kind \in Kinds
    /\ renderers[1].kind # renderers[2].kind
    /\ res.op = "render_multi"
    /\ Len(res.call.types) = 1
    /\ res.out.status = "ok"

\* number of entries of a list of types that are in the set tags
CountOf(types, tags) == Cardinality({i \in DOMAIN types : types[i] \in tags})

\* C11: in PixelRenderer a point source never goes through conv: render_source
\* gives the resampled PSF alone, and render_multi adds one resampled PSF per
\* point source after the convolution, while every other source adds its
\* intrinsic Sersic image(s) to what is convolved and nothing else.
C11_PointsourceNotConvolved ==
    /\ (res.op = "render_source" /\ Self.kind = "Pixel" /\ res.call.tag = "pointsource")
          => /\ res.out.status = "ok"
             /\ res.out.image.conv = EmptyBag
             /\ res.out.image.direct = SetToBag({Term("map_coordinates", -1, res.call.params)})
    /\ (res.op = "render_multi" /\ Self.kind = "Pixel" /\ res.out.status = "ok")
          => LET im == res.out.image
                 types == res.call.types
             IN  /\ \A t \in BagToSet(im.conv) : t.prim = "render_sersic_2d"
                 /\ \A t \in BagToSet(im.direct) : t.prim = "map_coordinates"
                 /\ BagCardinality(im.direct) = CountOf(types, {"pointsource"})
                 /\ \A i \in DOMAIN types : types[i] = "pointsource" =>
                        BagIn(Term("map_coordinates", -1, res.call.vars[i]), im.direct)
                 /\ BagCardinality(im.conv) =
                        CountOf(types, {"sersic", "exp", "dev"})
                            + 2 * CountOf(types, {"doublesersic"})

\* the pixel renderer rendered a point source together with a Sersic source
C11_Witness ==
    /\ res.op = "render_multi"
    /\ Self.kind = "Pixel"
    /\ res.out.status = "ok"
    /\ res.call.types = <<"pointsource", "sersic">>
    /\ BagCardinality(res.out.image.direct) = 1
    /\ BagCardinality(res.out.image.conv) = 1

\* the two Sersic components of a double Sersic vector, as the claim states
\* them (fluxes in tenths, f_1 in tenths)
Component1(p) == <<p[1], p[2], (p[3] * p[4]) \div 10, p[5], p[6], p[7], p[11]>>
Component2(p) == <<p[1], p[2], (p[3] * (10 - p[4])) \div 10, p[8], p[9], p[10], p[11]>>

\* C12: for every renderer a double Sersic is the sum of the two Sersic
\* components that share (xc, yc) and theta, with fluxes flux*f_1 and
\* flux*(1-f_1) that add up to flux; render_source and render_multi agree.
C12_DoubleSersicIsTwoSersics ==
    /\ (res.op = "render_source" /\ res.call.tag = "doublesersic")
          => LET p == res.call.params
                 c1 == render_source(Self, Component1(p), "sersic")
                 c2 == render_source(Self, Component2(p), "sersic")
             IN  /\ res.out.status = "ok"
                 /\ c1.status = "ok" /\ c2.status = "ok"
                 /\ res.out.image = ImagePlus(c1.image, c2.image)
                 /\ res.out.shape = c1.shape
                 /\ Component1(p)[3] + Component2(p)[3] = p[3]
                 /\ Component1(p)[3] # Component2(p)[3]
    /\ (res.op = "render_multi" /\ res.call.types = <<"doublesersic">>)
          => LET p == res.call.vars[1]
             IN  /\ res.out = render_source(Self, p, "doublesersic")
                 /\ res.out = render_multi(Self, <<"sersic", "sersic">>,
                                           <<Component1(p), Component2(p)>>)

\* the hybrid renderer rendered a double Sersic through render_multi: both
\* components have a pixel-space and a Fourier-space part
C12_Witness ==
    /\ res.op = "render_multi"
    /\ Self.kind = "Hybrid"
    /\ res.call.types = <<"doublesersic">>
    /\ res.out.status = "ok"
    /\ BagCardinality(res.out.image.direct) = 2 * NumPixelRender
    /\ BagCardinality(res.out.image.conv) = 2 * (NSigma - NumPixelRender)

\* the number of Sersic evaluations a list of types asks for
SersicEvaluations(types) ==
    CountOf(types, {"sersic", "exp", "dev"}) + 2 * CountOf(types, {"doublesersic"})

\* C13: FourierRenderer and HybridRenderer can be constructed in either
\* decomposition mode and the surrogate is the default; a surrogate renderer
\* runs sersic_gauss_decomp while it is constructed and in no render call; a
\* direct renderer runs it once for every Sersic evaluation of a render call.
C13_DecompositionModes ==
    /\ (res.op = "construct" /\ res.call.kind \in {"Fourier", "Hybrid"}
            /\ res.out.status = "ok")
          => /\ res.call.use_poly_fit_amps = "True" => Self.get_amps_sigmas = "polyval"
             /\ res.call.use_poly_fit_amps = "False"
                   => Self.get_amps_sigmas = "sersic_gauss_decomp"
             /\ res.call.use_poly_fit_amps = "omitted" => Self.get_amps_sigmas = "polyval"
             /\ Self.get_amps_sigmas = "polyval" => res.out.quad > 0
             /\ Self.get_amps_sigmas = "sersic_gauss_decomp" => res.out.quad = 0
    /\ (IsRender /\ Self.get_amps_sigmas = "polyval") => res.out.quad = 0
    /\ (res.op = "render_source" /\ Self.get_amps_sigmas = "sersic_gauss_decomp")
          => res.out.quad = SersicEvaluations(<<res.call.tag>>)
    /\ (res.op = "render_multi" /\ Self.get_amps_sigmas = "sersic_gauss_decomp")
          => res.out.quad = SersicEvaluations(res.call.types)

\* a direct-mode Fourier renderer rendered a Sersic and a double Sersic in
\* one call and ran the quadrature three times
C13_Witness ==
    /\ res.op = "render_multi"
    /\ Self.kind = "Fourier"
    /\ Self.get_amps_sigmas = "sersic_gauss_decomp"
    /\ res.call.types = <<"sersic", "doublesersic">>
    /\ res.out.status = "ok"
    /\ res.out.quad = 3

\* C14: a render call that uses the direct decomposition while 64-bit
\* precision is off writes the instability warning, raises nothing and
\* returns its image; nothing is written in surrogate mode or with 64-bit
\* precision on.
C14_WarningAtRenderCall ==
    /\ (IsRender /\ Self.get_amps_sigmas = "sersic_gauss_decomp" /\ ~jax_enable_x64
            /\ res.out.quad > 0)
          => (res.out.printed /\ res.out.status = "ok")
    /\ (res.op # "none"
            /\ (jax_enable_x64 \/ Self.get_amps_sigmas # "sersic_gauss_decomp"))
          => ~res.out.printed

\* the configurations a constructor call can choose besides the image and the
\* PSF: the keywords of the three constructors that the model carries
Configurations ==
    [n_sigma : 1 .. NSigma, num_pixel_render : 0 .. NumPixelRender,
     use_poly_fit_amps : Keywords]

\* C15: the failure on a PSF whose sum is more than 0.1 away from 1 can be
\* demoted: for an image and PSF shape that construct with a normalized PSF,
\* some configuration of the constructor gives a usable renderer.
C15_SeverityConfigurable ==
    (/\ res.op = "construct"
     /\ Abs(res.call.psf.sum - SumUnit) > SumUnit \div 10 + ISCLOSE_ATOL
     /\ Renderer(res.call.kind, res.call.im_shape,
                 [res.call.psf EXCEPT !.sum = SumUnit], NSigma, NumPixelRender,
                 use_poly_fit_amps_default, jax_enable_x64).status = "ok")
        => \E c \in Configurations :
              Renderer(res.call.kind, res.call.im_shape, res.call.psf, c.n_sigma,
                       c.num_pixel_render, KeywordValue(c.use_poly_fit_amps),
                       jax_enable_x64).status = "ok"

\* the columns and rows (in half pixels, as <<lo, hi>>) that the entries of
\* the shifted PSF land on: PixelRenderer puts PSF axis 0 along the columns
\* with entry 0 at xc - psf_shape[0]/2; the Fourier path puts PSF axis 1 along
\* the columns and recentres by psf_shape[0]/2 - 0.5 in x, psf_shape[1]/2 - 0.5
\* in y
FootprintCols(r, p) ==
    IF r.kind = "Pixel"
    THEN <<p[1] - r.psf_shape[1], p[1] - r.psf_shape[1] + 2 * (r.psf_shape[1] - 1)>>
    ELSE <<p[1] - (r.psf_shape[1] - 1),
           p[1] - (r.psf_shape[1] - 1) + 2 * (r.psf_shape[2] - 1)>>

FootprintRows(r, p) ==
    IF r.kind = "Pixel"
    THEN <<p[2] - r.psf_shape[2], p[2] - r.psf_shape[2] + 2 * (r.psf_shape[2] - 1)>>
    ELSE <<p[2] - (r.psf_shape[2] - 1),
           p[2] - (r.psf_shape[2] - 1) + 2 * (r.psf_shape[1] - 1)>>

FootprintInside(r, p) ==
    /\ FootprintCols(r, p)[1] >= 0
    /\ FootprintCols(r, p)[2] <= 2 * (r.X_shape[2] - 1)
    /\ FootprintRows(r, p)[1] >= 0
    /\ FootprintRows(r, p)[2] <= 2 * (r.X_shape[1] - 1)

C18_FitSingleValidation ==
    res.op = "FitSingle" =>
        /\ (\/ res.call.im_shape # res.call.weight_shape
            \/ res.call.sky_model \notin {"None", "flat", "tilted-plane"}
            \/ res.call.profile_type
                  \notin {"sersic", "doublesersic", "pointsource", "exp", "dev"})
              => res.out.status = "AssertionError"
        /\ res.out.status = "ok"
              => /\ fit.sky_model = res.call.sky_model
                 /\ fit.profile_type = res.call.profile_type
                 /\ fit.prior_dict = {}

\* C18 amended: the shape and sky-model checks come first and raise
\* AssertionError; then the renderer is constructed and its exception, if
\* any, is what the call raises, whatever the profile type; only when the
\* renderer constructs does an unknown profile type raise AssertionError.
\* When nothing raises, the object stores the given sky_model and
\* profile_type and an empty prior dictionary.
C18_FitSingleValidationOrder ==
    res.op = "FitSingle" =>
        LET c == res.call
            renderer == Renderer(c.kind, c.im_shape, c.psf, NSigma, NumPixelRender,
                                 use_poly_fit_amps_default, jax_enable_x64)
            early == \/ c.im_shape # c.weight_shape
                     \/ c.sky_model \notin {"None", "flat", "tilted-plane"}
            known == c.profile_type
                        \in {"sersic", "doublesersic", "pointsource", "exp", "dev"}
        IN  /\ early => res.out.status = "AssertionError"
            /\ (~early /\ renderer.status # "ok")
                  => res.out.status = renderer.status
            /\ (~early /\ renderer.status = "ok" /\ ~known)
                  => res.out.status = "AssertionError"
            /\ (~early /\ renderer.status = "ok" /\ known)
                  => /\ res.out.status = "ok"
                     /\ fit.state = "ok"
                     /\ fit.sky_model = c.sky_model
                     /\ fit.profile_type = c.profile_type
                     /\ fit.prior_dict = {}
            /\ res.out.status # "ok" => fit.state = "raised"

\* a FitSingle with the tilted-plane sky and a de Vaucouleurs profile was made
C18_Witness ==
    /\ res.op = "FitSingle"
    /\ res.out.status = "ok"
    /\ fit.state = "ok"
    /\ fit.sky_model = "tilted-plane"
    /\ fit.profile_type = "dev"
    /\ renderers[1].kind = "Hybrid"

\* the variables a purge is to remove
ExtraVars(posterior) ==
    {n \in DOMAIN posterior :
        Contains(n, "base") \/ Contains(n, "auto") \/ Contains(n, "unwrapped")}

\* C19: injest_data of FitSingle and of PySersicResults raises AssertionError
\* exactly when neither a sampler nor an SVI dictionary is supplied; with a
\* sampler it completes and the object holds the sampler's results; with only
\* a complete SVI dictionary it completes and the object holds the SVI results.
C19_InjestData ==
    res.op \in {"FitSingle.injest_data", "PySersicResults.injest_data"} =>
        LET c == res.call
            stored == IF res.op = "FitSingle.injest_data" THEN fit.az_data
                      ELSE IF c.sampler.given THEN results.sampling_results
                      ELSE results.svi_results
            holds(posterior) ==
                /\ stored.type # "none"
                /\ DOMAIN posterior \ ExtraVars(posterior) \subseteq DOMAIN stored.posterior
                /\ DOMAIN stored.posterior \subseteq DOMAIN posterior
        IN  /\ res.out.status = "AssertionError"
                  <=> (~c.sampler.given /\ ~c.svi_res_dict.given)
            /\ c.sampler.given
                  => (res.out.status = "ok" /\ holds(c.sampler.posterior))
            /\ (~c.sampler.given /\ c.svi_res_dict.given
                    /\ SviKeys \subseteq c.svi_res_dict.keys)
                  => (res.out.status = "ok" /\ holds(c.svi_res_dict.posterior))

\* C20: parse_injested_data with purge_extra True drops exactly the variables
\* whose name contains 'base', 'auto' or 'unwrapped'; with purge_extra False
\* it drops nothing and returns the data without error.
C20_PurgeExtraHonoured ==
    res.op = "parse_injested_data" =>
        LET given == res.call.data.posterior
        IN  /\ res.out.status = "ok"
            /\ DOMAIN res.out.data.posterior
                  = IF res.call.purge_extra THEN DOMAIN given \ ExtraVars(given)
                    ELSE DOMAIN given

\* C21: in FitSingle and FitMulti a pixel enters the likelihood exactly when
\* the user's mask is not True there: the stored mask is the element-wise
\* negation of the mask given, and without a mask every pixel enters.
C21_MaskNegation ==
    (res.op \in {"FitSingle", "FitMulti"} /\ res.out.status = "ok") =>
        LET c == res.call
            pixels == (0 .. c.im_shape[1] - 1) \X (0 .. c.im_shape[2] - 1)
        IN  /\ DOMAIN fit.mask = pixels
            /\ c.mask.given => \A ij \in pixels : fit.mask[ij] = ~c.mask.v[ij]
            /\ \A ij \in pixels :
                  ij \in ObservedPixels(fit) <=> ~(c.mask.given /\ c.mask.v[ij])

\* a FitMulti was made with a mask that masks one pixel and keeps the others
C21_Witness ==
    /\ res.op = "FitMulti"
    /\ res.out.status = "ok"
    /\ res.call.mask.given
    /\ \E ij \in DOMAIN res.call.mask.v : res.call.mask.v[ij]
    /\ \E ij \in DOMAIN res.call.mask.v : ~res.call.mask.v[ij]
    /\ ObservedPixels(fit) # {}

\* the sky parameters of a sky model, as the claim lists them
SkyParams(sky_model) ==
    IF sky_model = "None" THEN {}
    ELSE IF sky_model = "flat" THEN {"sky0"}
    ELSE {"sky0", "sky1", "sky2"}

\* C22: the number of sky parameters matches the sky model where it is
\* produced and consumed: generate_sky_priors sets no prior for None, sky0
\* for 'flat' and sky0, sky1, sky2 for 'tilted-plane'; sample_sky yields 0, a
\* scalar and an array of shape (3,); render_sky reads that many values.
C22_SkyParamCounts ==
    /\ res.op = "generate_sky_priors" =>
          /\ fit.prior_dict \ res.call.prior_dict \subseteq SkyParams(fit.sky_model)
          /\ SkyParams(fit.sky_model) \subseteq fit.prior_dict
    /\ (res.op = "model" /\ res.out.status = "ok") =>
          LET x == res.call.x
              n == Cardinality(SkyParams(fit.sky_model))
          IN  /\ fit.sky_model = "None" => x = Scalar(0)
              /\ fit.sky_model = "flat" => x.ndim = 0
              /\ fit.sky_model = "tilted-plane" => (x.ndim = 1 /\ Len(x.v) = 3)
              /\ SkyValuesRead(x, fit.sky_model) = n
    /\ (res.op = "model" /\ SkyParams(fit.sky_model) \subseteq fit.prior_dict)
          => res.out.status = "ok"

\* a tilted-plane model was run on the priors generate_sky_priors made, and
\* the plane was rendered from three sampled values
C22_Witness ==
    /\ res.op = "model"
    /\ res.out.status = "ok"
    /\ fit.sky_model = "tilted-plane"
    /\ fit.prior_dict = {"sky0", "sky1", "sky2"}
    /\ res.out.sky.ndim = 2
    /\ res.call.x = Array1(<<1, -2, 1>>)

\* C23: every render_multi that returns an image, on every renderer and for
\* a list of any length, the empty list included, made exactly one call of
\* conv / conv_and_inv_FFT; so did every render of a double Sersic.
C23_OneConvolutionPass ==
    /\ (res.op = "render_multi" /\ res.out.status = "ok") => res.out.passes = 1
    /\ (res.op = "render_source" /\ res.call.tag = "doublesersic"
            /\ res.out.status = "ok") => res.out.passes = 1

\* a render_multi of two sources, one of them a double Sersic, returned an
\* image whose convolved part holds terms of both
C23_Witness ==
    /\ res.op = "render_multi"
    /\ res.out.status = "ok"
    /\ Len(res.call.types) = 2
    /\ res.call.types[1] = "doublesersic"
    /\ res.call.types[2] = "sersic"
    /\ res.out.passes = 1
    /\ \E t \in BagToSet(res.out.image.conv) : t.p = Component2(res.call.vars[1])
    /\ \E t \in BagToSet(res.out.image.conv) : t.p = res.call.vars[2]

\* C24: for every setting (n_sigma, num_pixel_render) that HybridRenderer's
\* constructor accepts, w_real and w_fourier partition 0 .. n_sigma - 1,
\* w_real being the num_pixel_render largest indices; and render_sersic is
\* the pixel partial over w_real plus the convolved Fourier partial over
\* w_fourier, each Gaussian component contributing exactly once.
C24_SplitIsPartition ==
    (res.op \in {"construct", "render_source"} /\ Self.kind = "Hybrid") =>
        LET n == Self.n_sigma
            k == Self.num_pixel_render
            all == 0 .. n - 1
        IN  /\ Self.w_real \cup Self.w_fourier = all
            /\ Self.w_real \cap Self.w_fourier = {}
            /\ Cardinality(Self.w_real) = k
            /\ \A i \in Self.w_real, j \in Self.w_fourier : j < i
            /\ (res.op = "render_source" /\ res.call.tag = "sersic"
                    /\ res.out.status = "ok")
                  => LET p == res.call.params
                         im == res.out.image
                     IN  /\ im.direct
                               = SetToBag({Term("render_gaussian_pixel", c, p) :
                                              c \in Self.w_real})
                         /\ im.conv
                               = SetToBag({Term("render_gaussian_fourier", c, p) :
                                              c \in Self.w_fourier})
                         /\ \A c \in all :
                               CopiesIn(Term("render_gaussian_pixel", c, p), im.direct)
                                 + CopiesIn(Term("render_gaussian_fourier", c, p), im.conv)
                                 = 1

\* C25: in sersic_gauss_decomp, for every n_comp >= 1, the first and the last
\* amplitude carry a trapezoid weight of one half and every other amplitude
\* a weight of one, also when n_comp is 1 or 2.
C25_TrapezoidHalfWeights ==
    res.op = "sersic_gauss_decomp" =>
        LET n_comp == res.call.params[3]
            w == res.out.decomp.weights
        IN  /\ Len(w) = n_comp
            /\ \A k \in 1 .. n_comp :
                  w[k] = IF k = 1 \/ k = n_comp THEN 2 ELSE 4

\* the closure of the other decomposition mode on the same renderer
OtherMode(r) ==
    [r EXCEPT !.get_amps_sigmas = IF @ = "polyval" THEN "sersic_gauss_decomp"
                                  ELSE "polyval"]

\* the statements of C26 that hold of the sigmas s of a renderer with n
\* components at log10(r_eff) = lr whatever n is
SigmaSequence(r, s, n_amps, lr) ==
    LET n == r.n_sigma
    IN  /\ Len(s) = n
        /\ n_amps = n
        /\ \A k \in 1 .. n - 1 : s[k] < s[k + 1]
        /\ \A k \in 1 .. n - 2 : s[k + 1] - s[k] = s[k + 2] - s[k + 1]
        /\ s[1] = (LogFracStart + lr) * Steps(n)
        /\ s = AmpsSigmas(OtherMode(r), lr).sigmas

C27_RecentringConsistent ==
    (/\ res.op = "render_source"
     /\ res.call.tag = "pointsource"
     /\ res.out.status = "ok"
     /\ FourierShiftExact(Self, res.call.params)
     /\ FootprintInside([Self EXCEPT !.kind = "Pixel"], res.call.params)
     /\ FootprintInside([Self EXCEPT !.kind = "Fourier"], res.call.params))
        => /\ PointsourceArray(Self, res.out.image)
                 = PixelPointsourceArray(Self, res.call.params)
           /\ PointsourceArray(Self, res.out.image)
                 = FourierPointsourceArray(Self, res.call.params)

\* C28: on every pixel renderer that was constructed, the oversampled region
\* is the box of 2*os_pixel_size pixels per side around the image centre,
\* rows and columns i_mid - os_pixel_size .. i_mid + os_pixel_size - 1, it
\* lies inside the image, and render_int_sersic's image holds the oversampled
\* estimate on exactly the pixels of that box and the plain evaluation on
\* every other pixel.
C28_OversampledBox ==
    (res.op \in {"construct", "render_source"} /\ Self.kind = "Pixel")
        => LET os == Self.os_pixel_size
               rows == (Mid(Self.im_shape[1]) - os) .. (Mid(Self.im_shape[1]) + os - 1)
               cols == (Mid(Self.im_shape[2]) - os) .. (Mid(Self.im_shape[2]) + os - 1)
           IN  /\ Cardinality(rows) = 2 * os /\ Cardinality(cols) = 2 * os
               /\ rows \X cols \subseteq DOMAIN Self.X
               /\ \A ij \in DOMAIN Self.X :
                      IntSersicPixels(Self)[ij] = "sub_im_os" <=> ij \in rows \X cols

\* C29: the normalisation of the PSF is checked before its size: constructing
\* with a PSF whose sum is more than 0.1 from 1 and which is larger than the
\* image in some axis fails with PSFNormalizationWarning, and KernelError is
\* raised only for a PSF that passes the normalisation check.
C29_NormalisationBeforeSize ==
    res.op = "construct"
        => /\ (/\ Abs(res.call.psf.sum - SumUnit) > SumUnit \div 10
               /\ \/ res.call.psf.shape[1] > res.call.im_shape[1]
                  \/ res.call.psf.shape[2] > res.call.im_shape[2])
                  => res.out.status = "PSFNormalizationWarning"
           /\ res.out.status = "KernelError" => PSFNormalized(res.call.psf)

\* C30: render_sky with a tag that is neither None nor 'flat', a misspelled
\* or unknown one included, and an array of at least three values does not
\* fail: it gives the plane x[0] + x[1]*(x - x_mid) + x[2]*(y - y_mid), the
\* result of the tag 'tilted-plane' (values in twentieths).  FitSingle refuses
\* every tag other than None, 'flat', 'tilted-plane' and builds no renderer.
C30_UnknownTagIsPlane ==
    /\ (res.op = "render_sky" /\ res.call.tag \notin {"None", "flat"}
           /\ res.call.x.ndim = 1 /\ Len(res.call.x.v) >= 3)
          => LET x == res.call.x
                 sky == res.out.sky
                 rows == Self.X_shape[1]
                 cols == Self.X_shape[2]
             IN  /\ res.out.status = "ok"
                 /\ sky.ndim = 2
                 /\ DOMAIN sky.v = (0 .. rows - 1) \X (0 .. cols - 1)
                 /\ \A ij \in DOMAIN sky.v :
                       sky.v[ij] = 2 * x.v[1] + x.v[2] * (2 * ij[2] - (cols - 1))
                                              + x.v[3] * (2 * ij[1] - (rows - 1))
    /\ (res.op = "FitSingle"
           /\ res.call.sky_model \notin {"None", "flat", "tilted-plane"})
          => /\ res.out.status = "AssertionError"
             /\ fit.state = "raised"
             /\ renderers[1].kind = "raised"

\* the misspelled tag 'tilted_plane' was rendered on the renderer of a fit as
\* the plane a = 1, b = 0.1, c = -0.2
C30_Witness ==
    /\ res.op = "render_sky"
    /\ res.call.tag = "tilted_plane"
    /\ res.call.x = Array1(<<10, 1, -2>>)
    /\ fit.state = "ok"
    /\ res.out.status = "ok"
    /\ Self.im_shape = <<RenderDim, RenderDim>>
    /\ res.out.sky.v[<<0, RenderDim - 1>>] = 20 + (RenderDim - 1) + 2 * (RenderDim - 1)

====
